---- MODULE Spec2Model ----
(***************************************************************************)
(* null-rpc: a multi-chain JSON-RPC reverse proxy.                         *)
(*                                                                         *)
(* The model follows one inbound call through the worker:                  *)
(*   router -> public rate limit -> handleRequest (cache decision and      *)
(*   lookup) -> ChainDO.fetch (ensureChainData, payload sanitisation,      *)
(*   determineRoutingType) -> handleMev/Archive/StandardRequest (shuffle,  *)
(*   bounded attempts through proxyRequest) -> handleRequest (cache write). *)
(*                                                                         *)
(* Three specifications share the variables and the actions:               *)
(*   Spec          the whole pipeline, call after call, small node pools;  *)
(*   SpecDispatch  ChainDO.fetch from the parse step on, with node pools   *)
(*                 larger than every attempt budget;                       *)
(*   SpecClassify  ChainDO.fetch's parse-and-classify step over a matrix   *)
(*                 of methods and parameter lists.                         *)
(*                                                                         *)
(* Text is modelled as a sequence of one-character strings, so that        *)
(* startsWith, === and parseInt are computed, not assumed.                 *)
(***************************************************************************)
EXTENDS Integers, Sequences, FiniteSets, TLC

----------------------------------------------------------------------------
(* Strings the code compares against, character by character. *)

S_eth_sendRawTransaction == <<"e", "t", "h", "_", "s", "e", "n", "d", "R", "a", "w", "T", "r", "a", "n", "s", "a", "c", "t", "i", "o", "n">>
S_eth_getLogs == <<"e", "t", "h", "_", "g", "e", "t", "L", "o", "g", "s">>
S_eth_getBalance == <<"e", "t", "h", "_", "g", "e", "t", "B", "a", "l", "a", "n", "c", "e">>
S_eth_getCode == <<"e", "t", "h", "_", "g", "e", "t", "C", "o", "d", "e">>
S_eth_getTransactionCount == <<"e", "t", "h", "_", "g", "e", "t", "T", "r", "a", "n", "s", "a", "c", "t", "i", "o", "n", "C", "o", "u", "n", "t">>
S_eth_getStorageAt == <<"e", "t", "h", "_", "g", "e", "t", "S", "t", "o", "r", "a", "g", "e", "A", "t">>
S_eth_call == <<"e", "t", "h", "_", "c", "a", "l", "l">>
S_eth_chainId == <<"e", "t", "h", "_", "c", "h", "a", "i", "n", "I", "d">>
S_eth_blockNumber == <<"e", "t", "h", "_", "b", "l", "o", "c", "k", "N", "u", "m", "b", "e", "r">>
S_eth_gasPrice == <<"e", "t", "h", "_", "g", "a", "s", "P", "r", "i", "c", "e">>
S_eth_estimateGas == <<"e", "t", "h", "_", "e", "s", "t", "i", "m", "a", "t", "e", "G", "a", "s">>
S_net_version == <<"n", "e", "t", "_", "v", "e", "r", "s", "i", "o", "n">>
S_web3_clientVersion == <<"w", "e", "b", "3", "_", "c", "l", "i", "e", "n", "t", "V", "e", "r", "s", "i", "o", "n">>
S_eth_getBlockByHash == <<"e", "t", "h", "_", "g", "e", "t", "B", "l", "o", "c", "k", "B", "y", "H", "a", "s", "h">>
S_eth_getTransactionReceipt == <<"e", "t", "h", "_", "g", "e", "t", "T", "r", "a", "n", "s", "a", "c", "t", "i", "o", "n", "R", "e", "c", "e", "i", "p", "t">>
S_eth_getBlockByNumber == <<"e", "t", "h", "_", "g", "e", "t", "B", "l", "o", "c", "k", "B", "y", "N", "u", "m", "b", "e", "r">>
S_trace_ == <<"t", "r", "a", "c", "e", "_">>
S_debug_ == <<"d", "e", "b", "u", "g", "_">>
S_unknown == <<"u", "n", "k", "n", "o", "w", "n">>
S_batch == <<"b", "a", "t", "c", "h">>
S_earliest == <<"e", "a", "r", "l", "i", "e", "s", "t">>
S_latest == <<"l", "a", "t", "e", "s", "t">>
S_pending == <<"p", "e", "n", "d", "i", "n", "g">>
S_safe == <<"s", "a", "f", "e">>
S_finalized == <<"f", "i", "n", "a", "l", "i", "z", "e", "d">>
S_0x == <<"0", "x">>
S_trace_block == <<"t", "r", "a", "c", "e", "_", "b", "l", "o", "c", "k">>
S_debug_traceCall == <<"d", "e", "b", "u", "g", "_", "t", "r", "a", "c", "e", "C", "a", "l", "l">>
S_tracer == <<"t", "r", "a", "c", "e", "r">>

(* String.prototype.startsWith *)
StartsWith(s, p) == Len(s) >= Len(p) /\ SubSeq(s, 1, Len(p)) = p

----------------------------------------------------------------------------
(* Bounds of the model. *)

MaxStd == 4          \* entries of chainData.nodes in SpecDispatch
MaxArch == 4         \* entries of chainData.archive_nodes in SpecDispatch
MaxMev == 3          \* entries of chainData.mev_nodes in SpecDispatch
GwMaxPool == 1       \* entries of each non-empty node list in Spec
MaxTicks == 2        \* clock steps of half a SYNC_INTERVAL in Spec
MaxHalfSeconds == 2  \* clock steps of half a second in a row in SpecCache
MaxChecks == 25      \* check calls of an identity in SpecLimiter
MaxSpreadSteps == 4  \* clock steps of half a token in SpecLimiter
MaxRollovers == 1    \* billing window rollovers in SpecLimiter
MaxQueries == 2      \* queries of the chains table in flight in SpecRefresh
MaxRefreshTicks == 1 \* clock steps of half a SYNC_INTERVAL in SpecRefresh
AsyncMaxStd == 2     \* entries of chainData.nodes in SpecAsync
AsyncMaxPool == 1    \* entries of archive_nodes and of mev_nodes in SpecAsync
MaxOtherQueries == 1 \* queries of other calls in flight in SpecAsync
MaxInFlight == 2     \* requests waiting together in SpecShard
MaxArrivals == 3     \* requests in SpecShard
MaxShardSteps == 2   \* clock steps of half a token in SpecShard

(* Program constants. *)

SYNC_INTERVAL == 60000
MEV_BUDGET == 2
MEV_FALLBACK_BUDGET == 3
ARCHIVE_BUDGET == 3
STANDARD_BUDGET == 3
ARCHIVE_BLOCK_THRESHOLD == 15000000

----------------------------------------------------------------------------
VARIABLES
  now,        \* Date.now(), milliseconds
  db,         \* the row of the chains table for the slug, or NoRow
  chainData,  \* ChainDO.chainData (NoChainData is null)
  lastSync,   \* ChainDO.lastSync
  cache,      \* caches.default: the stored entries [key, resp, ttl, at]
  pc,         \* position of the current call
  req,        \* the inbound request: [chain, body, headers, path, method]
  gw,         \* locals of handleRequest
  dobj,       \* locals of ChainDO.fetch
  shuffled,   \* the candidates left in the running for-of loop
  response,   \* the last value returned by proxyRequest
  lastHttpError, \* the error of the last non-success upstream answer of this call
  io,         \* the I/O of the current call, in order
  result,     \* the response handed back to the caller
  limiter,    \* the RateLimitState of one identity
  calls,      \* the check calls of that identity: in flight, and answered
  pending     \* what the ChainDO awaits: upstream fetches, queries of other calls

vars == <<now, db, chainData, lastSync, cache, pc, req, gw, dobj, shuffled,
          response, lastHttpError, io, result, limiter, calls, pending>>

----------------------------------------------------------------------------
(* Sequences. *)

Range(s) == {s[i] : i \in 1..Len(s)}

Min(a, b) == IF a < b THEN a ELSE b

(* Array.prototype.slice(0, n) *)
Slice(s, n) == SubSeq(s, 1, Min(n, Len(s)))

(* [...pool].sort(() => 0.5 - Math.random()): the comparator is random, so
   the sort may return any arrangement of the same entries. *)
Shuffle(pool) ==
  {[i \in 1..Len(pool) |-> pool[f[i]]] :
     f \in {g \in [1..Len(pool) -> 1..Len(pool)] :
              \A i, j \in 1..Len(pool) : i # j => g[i] # g[j]}}

----------------------------------------------------------------------------
(* JSON values of a request body.

   A body is the text of the POST. kind "malformed" is text JSON.parse
   rejects (raw tells two such texts apart), "single" is a JSON object,
   "batch" a JSON array of objects. method.t and params.t give the JSON type
   of the member ("absent" when the object has no such member); extra says
   whether the object has members besides id, jsonrpc, method, params. *)

Str(s) == [t |-> "string", s |-> s]
Num == [t |-> "number", s |-> <<>>]
Obj == [t |-> "object", s |-> <<>>]
Absent == [t |-> "absent", s |-> <<>>]

ParamList(l) == [t |-> "list", list |-> l]
NoParams == [t |-> "absent", list |-> <<>>]
ParamsObject == [t |-> "object", list |-> <<>>]

NoBody ==
  [kind |-> "none", raw |-> 0, id |-> 0, jsonrpc |-> "absent", method |-> Absent,
   params |-> NoParams, extra |-> FALSE, items |-> <<>>]

Malformed(n) == [NoBody EXCEPT !.kind = "malformed", !.raw = n]

Single(jsonrpc, method, params, extra) ==
  [NoBody EXCEPT !.kind = "single", !.id = 1, !.jsonrpc = jsonrpc,
                 !.method = method, !.params = params, !.extra = extra]

Batch(items) == [NoBody EXCEPT !.kind = "batch", !.items = items]

Call(m, l) == Single("2.0", Str(m), ParamList(l), FALSE)

(* JSON.parse(text) returns (TRUE) or throws (FALSE). *)
JsonParses(body) == body.kind \in {"single", "batch"}

----------------------------------------------------------------------------
(* Responses. origin is the node whose answer this is, 0 for a response the
   proxy builds itself; details is the upstream error a response carries. *)

Resp(status, origin, body, details) ==
  [status |-> status, origin |-> origin, body |-> body, details |-> details,
   xcache |-> "absent"]

NoResponse == Resp(0, 0, "none", "none")

(* Response.ok *)
IsOk(r) == r.status >= 200 /\ r.status <= 299

UpstreamOk(n) == Resp(200, n, "result", "none")
UpstreamHttpError(n) == Resp(500, n, "upstream error", "none")
ConnectionFailed == Resp(502, 0, "Upstream connection failed", "fetch failed")

(* fetch(targetUrl, ...) inside proxyRequest: the node answers with a
   success status, answers with an error status, or the connection fails
   and the catch block builds a 502. *)
ProxyRequest(targetUrl) ==
  {UpstreamOk(targetUrl), UpstreamHttpError(targetUrl), ConnectionFailed}

(* a ChainDO that answers 500 for a chain it has no data of *)
NotConfigured_As500 == Resp(500, 0, "Chain not configured in DB", "none")

NotConfigured == Resp(404, 0, "Chain not configured in DB", "none")
RateLimitExceeded == Resp(429, 0, "Rate Limit Exceeded", "none")
DOThrew == Resp(500, 0, "exception", "none")

(* the fallback of handleMevRequest answering 502 for an empty pool *)
NoNodesForTransaction_As502 == Resp(502, 0, "No nodes available", "none")

NoNodesForTransaction == Resp(503, 0, "No nodes available", "none")
(* a handler that hands back the response of its last failed attempt *)
AllFailedForTransaction_LastResponse == response

AllFailedForTransaction == Resp(502, 0, "All nodes failed for transaction", "none")
(* handleStandardRequest answering 502 for an empty pool *)
NoNodesForChain_As502 == Resp(502, 0, "No nodes available for chain", "none")

NoNodesForChain == Resp(503, 0, "No nodes available for chain", "none")
(* an aggregate failure that passes on the last upstream error *)
AllUpstreamFailed_CarryLast ==
  Resp(502, 0, "All upstream nodes failed", lastHttpError)

AllUpstreamFailed == Resp(502, 0, "All upstream nodes failed", "none")

----------------------------------------------------------------------------
(* Chain configuration. The URLs of the three lists are distinct numbers. *)

NodeUrl(base, i) == base + i
Pool(base, k) == [i \in 1..k |-> NodeUrl(base, i)]

ChainData(k, a, m) ==
  [present |-> TRUE, nodes |-> Pool(100, k), archive_nodes |-> Pool(200, a),
   mev_nodes |-> Pool(300, m)]

NoChainData ==
  [present |-> FALSE, nodes |-> <<>>, archive_nodes |-> <<>>, mev_nodes |-> <<>>]

----------------------------------------------------------------------------
(* RequestClassifier: ChainDO.determineRoutingType, requiresArchiveNode. *)

HexDigits ==
  <<"0", "1", "2", "3", "4", "5", "6", "7", "8", "9", "a", "b", "c", "d", "e", "f">>
HexDigitsUpper ==
  <<"0", "1", "2", "3", "4", "5", "6", "7", "8", "9", "A", "B", "C", "D", "E", "F">>

IsHexDigit(c) == c \in Range(HexDigits) \cup Range(HexDigitsUpper)

HexValue(c) ==
  IF c \in Range(HexDigits)
  THEN (CHOOSE i \in 1..16 : HexDigits[i] = c) - 1
  ELSE (CHOOSE i \in 1..16 : HexDigitsUpper[i] = c) - 1

(* The longest prefix of s made of hexadecimal digits. *)
RECURSIVE HexPrefix(_)
HexPrefix(s) ==
  IF s = <<>> \/ ~IsHexDigit(Head(s)) THEN <<>>
  ELSE <<Head(s)>> \o HexPrefix(Tail(s))

RECURSIVE HexNumber(_)
HexNumber(ds) ==
  IF ds = <<>> THEN 0
  ELSE 16 * HexNumber(SubSeq(ds, 1, Len(ds) - 1)) + HexValue(ds[Len(ds)])

(* Number.parseInt(s, 16) for an s that starts with "0x": the prefix is
   skipped, the digits up to the first non-digit are read, and the result
   is NaN when there is none. *)
ParseInt16(s) ==
  LET ds == HexPrefix(SubSeq(s, Len(S_0x) + 1, Len(s)))
  IN  IF ds = <<>> THEN [nan |-> TRUE, n |-> 0]
      ELSE [nan |-> FALSE, n |-> HexNumber(ds)]

blockMethods ==
  {S_eth_getBalance, S_eth_getCode, S_eth_getTransactionCount, S_eth_getStorageAt,
   S_eth_call}

(* params[params.length - 1]: undefined (Absent) for an empty list and for
   a params that is no array. *)
LastParam(params) ==
  IF params.t = "list" /\ params.list # <<>>
  THEN params.list[Len(params.list)]
  ELSE Absent

(* blockNum > 0 && blockNum < 15000000; every comparison with NaN is false *)
IsOldBlock(blockNum) ==
  ~blockNum.nan /\ blockNum.n > 0 /\ blockNum.n < ARCHIVE_BLOCK_THRESHOLD

requiresArchiveNode(method, params) ==
  IF method.s \notin blockMethods THEN FALSE
  ELSE LET lastParam == LastParam(params)
       IN  /\ lastParam.t = "string"
           /\ \/ lastParam.s = S_earliest
              \/ /\ StartsWith(lastParam.s, S_0x)
                 /\ IsOldBlock(ParseInt16(lastParam.s))

(* determineRoutingType without its mev branch *)
IsMevMethod_Never(method) == FALSE

IsMevMethod(method) == method.s = S_eth_sendRawTransaction

(* the archive test without its debug_ prefix *)
IsArchiveMethod_NoDebug(method) ==
  \/ StartsWith(method.s, S_trace_)
  \/ method.s = S_eth_getLogs

IsArchiveMethod(method) ==
  \/ StartsWith(method.s, S_trace_)
  \/ StartsWith(method.s, S_debug_)
  \/ method.s = S_eth_getLogs

(* method is what ChainDO.fetch passes: a string, or a truthy non-string
   taken from the body, on which method.startsWith throws a TypeError. *)
determineRoutingType(method, params) ==
  IF method.t # "string" THEN "throws"
  ELSE IF IsMevMethod(method) THEN "mev"
  ELSE IF IsArchiveMethod(method) THEN "archive"
  ELSE IF requiresArchiveNode(method, params) THEN "archive"
  ELSE "standard"

----------------------------------------------------------------------------
(* ChainDO.fetch: payload sanitisation. *)

(* { id, jsonrpc: '2.0', method, params } of one parsed object *)
SanitizeObject(p) == [p EXCEPT !.jsonrpc = "2.0", !.extra = FALSE]

Sanitize(parsed) ==
  IF parsed.kind = "batch"
  THEN [parsed EXCEPT !.items = [i \in 1..Len(parsed.items) |->
                                   SanitizeObject(parsed.items[i])]]
  ELSE SanitizeObject(parsed)

(* a fetch that sends the sanitised empty object for text it cannot parse *)
RequestToUse_NeverRaw(body) ==
  IF JsonParses(body) THEN Sanitize(body) ELSE SanitizeObject([body EXCEPT !.kind = "single"])

(* the body of requestToUse: JSON.stringify(sanitized), or rawText when
   JSON.parse threw *)
RequestToUse(body) == IF JsonParses(body) THEN Sanitize(body) ELSE body

(* method = parsed.method || 'unknown' (single request only) *)
MethodOf(body) ==
  IF body.kind # "single" THEN Str(S_unknown)
  ELSE IF body.method.t = "absent" THEN Str(S_unknown)
  ELSE IF body.method.t = "string" /\ body.method.s = <<>> THEN Str(S_unknown)
  ELSE body.method

(* params = parsed.params || [] (single request only) *)
ParamsOf(body) ==
  IF body.kind # "single" \/ body.params.t = "absent" THEN ParamList(<<>>)
  ELSE body.params

NoDobj ==
  [method |-> Absent, params |-> NoParams, requestToUse |-> NoBody,
   routingType |-> "none"]

----------------------------------------------------------------------------
(* CacheDecisionEngine and ResponseCache: cache.ts. *)

Chain == "eth"

Slash == "/"

(* the path names of the chains the model knows by name *)
PathEth == <<"e", "t", "h">>
PathBsc == <<"b", "s", "c">>

(* new URL(request.url).pathname of a public call for the chain *)
PathOf(chain) == <<Slash>> \o (IF chain = "bsc" THEN PathBsc ELSE PathEth)

(* the chain name a path segment spells *)
SlugOf(text) ==
  IF text = PathEth THEN "eth" ELSE IF text = PathBsc THEN "bsc" ELSE "other"

NoKey == [chain |-> "", body |-> NoBody]

(* a key that leaves the chain out *)
calculateCacheKey_NoChain(chain, body) == [chain |-> "", body |-> body]

(* calculateCacheKey: the chain and the SHA-256 of JSON.stringify(body);
   the digest is taken to be free of collisions, so the key stands for the
   pair itself. *)
calculateCacheKey(chain, body) == [chain |-> chain, body |-> body]

(* a table that leaves eth_estimateGas out of the short class *)
ShortTtlMethods_NoEstimateGas ==
  {S_eth_blockNumber, S_eth_gasPrice, S_eth_getBalance, S_eth_call}

(* a table that treats only "latest" as a moving tag *)
MovingBlockTags_OnlyLatest == {Str(S_latest)}

ShortTtlMethods ==
  {S_eth_blockNumber, S_eth_gasPrice, S_eth_getBalance, S_eth_call, S_eth_estimateGas}
LongTtlMethods ==
  {S_eth_chainId, S_net_version, S_web3_clientVersion, S_eth_getBlockByHash,
   S_eth_getTransactionReceipt}
MovingBlockTags ==
  {Str(S_latest), Str(S_earliest), Str(S_pending), Str(S_safe), Str(S_finalized)}

(* params[0]: undefined (Absent) when there is none; a TypeError when
   params itself is undefined *)
FirstParam(params) ==
  IF params.t = "list" /\ params.list # <<>> THEN params.list[1] ELSE Absent

(* getCacheTtl(method, params): [throws, ttl] *)
getCacheTtl(method, params) ==
  IF method \in ShortTtlMethods THEN [throws |-> FALSE, ttl |-> 1]
  ELSE IF method \in LongTtlMethods THEN [throws |-> FALSE, ttl |-> 900]
  ELSE IF method = S_eth_getBlockByNumber
  THEN IF params.t = "absent" THEN [throws |-> TRUE, ttl |-> 0]
       ELSE IF FirstParam(params) \in MovingBlockTags THEN [throws |-> FALSE, ttl |-> 1]
       ELSE [throws |-> FALSE, ttl |-> 900]
  ELSE [throws |-> FALSE, ttl |-> 0]

(* a cache that ignores max-age *)
FreshAt_Forever(e, t) == TRUE

(* Cache-Control: public, max-age=ttl. An entry stored at time at (ms) is
   fresh at time t while its age is below max-age (s). *)
FreshAt(e, t) == t - e.at < e.ttl * 1000

Fresh(e) == FreshAt(e, now)

(* caches.default.match(keyUrl): the fresh stored responses for the key *)
getCachedResponse(keyUrl) ==
  {e.resp : e \in {x \in cache : x.key = keyUrl /\ Fresh(x)}}

(* caches.default.put(keyUrl, response with Cache-Control max-age=ttl) *)
CachePut(keyUrl, resp, ttl) ==
  {e \in cache : e.key # keyUrl}
    \cup {[key |-> keyUrl, resp |-> resp, ttl |-> ttl, at |-> now]}

----------------------------------------------------------------------------
(* handleRequest: rpc.ts. *)

NoGw ==
  [method |-> Str(S_unknown), isValidRpc |-> FALSE, cacheStatus |-> "NONE",
   cacheKeyUrl |-> NoKey, ttl |-> 0]

(* lines 41-51: a non-empty array whose items all are JSON-RPC 2.0 calls *)
IsValidBatch(parsed) ==
  /\ Len(parsed.items) > 0
  /\ \A i \in 1..Len(parsed.items) :
        parsed.items[i].jsonrpc = "2.0" /\ parsed.items[i].method.t = "string"

(* a handler that looks up every call in the cache *)
Cacheable_Always(ttl) == TRUE

(* line 65: if (ttl > 0 && ctx); ctx is always passed by the router *)
Cacheable(ttl) == ttl > 0

(* lines 58-71: the single-call branch, up to the cache lookup.
   cacheStatus "LOOKUP" stands for the pending getCachedResponse. *)
SingleDecision(chain, parsed) ==
  IF parsed.jsonrpc = "2.0" /\ parsed.method.t = "string"
  THEN LET t == getCacheTtl(parsed.method.s, parsed.params) IN
       IF t.throws
       THEN [NoGw EXCEPT !.isValidRpc = TRUE, !.method = parsed.method]
       ELSE [method |-> parsed.method, isValidRpc |-> TRUE,
             cacheStatus |-> IF Cacheable(t.ttl) THEN "LOOKUP" ELSE "BYPASS",
             cacheKeyUrl |-> IF Cacheable(t.ttl) THEN calculateCacheKey(chain, parsed)
                             ELSE NoKey,
             ttl |-> t.ttl]
  ELSE NoGw

(* a handler that takes the cache decision of a batch from its first call *)
CacheDecision_BatchAsFirstCall(chain, body) ==
  IF ~JsonParses(body) THEN NoGw
  ELSE IF body.kind = "batch" /\ body.items # <<>>
       THEN SingleDecision(chain, body.items[1])
  ELSE SingleDecision(chain, body)

(* lines 30-79: parse the body and decide about the cache *)
CacheDecision(chain, body) ==
  IF ~JsonParses(body) THEN NoGw
  ELSE IF body.kind = "batch"
       THEN IF IsValidBatch(body)
            THEN [NoGw EXCEPT !.isValidRpc = TRUE, !.method = Str(S_batch)]
            ELSE NoGw
  ELSE SingleDecision(chain, body)

(* a response from the cache without the header *)
HitResponse_NoHeader(cached) == cached

(* new Response(cachedResponse.body, cachedResponse) with X-NullRPC-Cache *)
HitResponse(cached) == [cached EXCEPT !.xcache = "HIT"]

(* a handler that dispatches although the lookup found a response *)
ServedFromCache_Never(found) == FALSE

(* line 81: if (cachedResponse) *)
ServedFromCache(found) == found # {}

(* a handler that fails the call when the lookup throws *)
CatchLookupError_Rethrows(res) == [pc |-> "done", result |-> DOThrew]

(* lines 73-75: catch (_) {}, the call goes on to the ChainDO *)
CatchLookupError(res) == [pc |-> "do_ensure", result |-> res]

(* a handler that stores whatever the ChainDO returned *)
ShouldCache_AnyStatus(g, r) == g.cacheKeyUrl # NoKey /\ g.ttl > 0

(* line 126: if (ctx && cacheKeyUrl && ttl > 0 && response.ok) *)
ShouldCache(g, r) == g.cacheKeyUrl # NoKey /\ g.ttl > 0 /\ IsOk(r)

----------------------------------------------------------------------------
(* RateLimiter: the token bucket and monthly quota of one identity. Token
   amounts are kept in thousandths of a token, so that the refill of one
   millisecond is a whole number. *)

(* Number.POSITIVE_INFINITY *)
Infinity == 0 - 1

(* a hobbyist plan of 20 requests per second *)
PLANS_HobbyistTwenty(plan) ==
  IF plan = "hobbyist"
  THEN [requestsPerMonth |-> 100000, requestsPerSecond |-> 20]
  ELSE [requestsPerMonth |-> Infinity, requestsPerSecond |-> Infinity]

PLANS(plan) ==
  IF plan = "business"
  THEN [requestsPerMonth |-> 250000000, requestsPerSecond |-> 500]
  ELSE IF plan = "hobbyist"
  THEN [requestsPerMonth |-> 100000, requestsPerSecond |-> 10]
  ELSE IF plan = "scaling"
  THEN [requestsPerMonth |-> 50000000, requestsPerSecond |-> 100]
  ELSE [requestsPerMonth |-> Infinity, requestsPerSecond |-> Infinity]

TokenUnit == 1000

(* requests per second times the burst multiplier 1.5 *)
Capacity(plan) ==
  IF PLANS(plan).requestsPerSecond = Infinity THEN Infinity
  ELSE (PLANS(plan).requestsPerSecond * 3 * TokenUnit) \div 2

RateLimitResult(allowed, reason, remaining) ==
  [allowed |-> allowed, reason |-> reason, remaining |-> remaining]

NoResult == RateLimitResult(FALSE, "none", 0)

(* the state of an identity: plan "none" is a token without a plan *)
RateLimitState(plan, tokens, monthlyUsed, at) ==
  [plan |-> plan, tokens |-> tokens, lastRefill |-> at,
   monthlyUsed |-> monthlyUsed, windowStart |-> at]

NoLimiter == RateLimitState("none", 0, 0, 0)

Unlimited(s) == PLANS(s.plan).requestsPerSecond = Infinity

(* a refill that lets the bucket overflow *)
Refill_Uncapped(s, t) ==
  [s EXCEPT !.tokens = s.tokens + (t - s.lastRefill) * PLANS(s.plan).requestsPerSecond,
            !.lastRefill = t]

(* step 2: tokens = min(capacity, tokens + elapsedSeconds * refillRatePerSec) *)
Refill(s, t) ==
  [s EXCEPT !.tokens = Min(Capacity(s.plan),
                           s.tokens + (t - s.lastRefill) * PLANS(s.plan).requestsPerSecond),
            !.lastRefill = t]

(* a check that looks at the bucket before the quota *)
Rejection_BucketFirst(s) ==
  IF s.tokens < TokenUnit THEN "rate_limit"
  ELSE IF s.monthlyUsed >= PLANS(s.plan).requestsPerMonth THEN "monthly_limit"
  ELSE "none"

(* steps 3 and 4: the quota is looked at first, then the bucket *)
Rejection(s) ==
  IF s.monthlyUsed >= PLANS(s.plan).requestsPerMonth THEN "monthly_limit"
  ELSE IF s.tokens < TokenUnit THEN "rate_limit"
  ELSE "none"

(* check(identity) at time t on state s: the state it leaves and its result *)
check(s, t) ==
  IF s.plan = "none"
  THEN [state |-> s, result |-> RateLimitResult(FALSE, "user_not_found", 0)]
  ELSE IF Unlimited(s)
  THEN [state |-> [s EXCEPT !.monthlyUsed = @ + 1, !.lastRefill = t],
        result |-> RateLimitResult(TRUE, "none", Infinity)]
  ELSE LET r == Refill(s, t)
       IN  IF Rejection(r) # "none"
           THEN [state |-> r, result |-> RateLimitResult(FALSE, Rejection(r), 0)]
           ELSE [state |-> [r EXCEPT !.tokens = @ - TokenUnit, !.monthlyUsed = @ + 1],
                 result |-> RateLimitResult(TRUE, "none",
                                            (r.tokens - TokenUnit) \div TokenUnit)]

Reasons == {"allowed", "rate_limit", "monthly_limit", "user_not_found"}

NoCalls ==
  [inflight |-> <<>>, counts |-> [r \in Reasons |-> 0], last |-> NoResult,
   initial |-> NoLimiter, first |-> 0, arrivals |-> 0, rollovers |-> 0]

ChecksOf(c) == c.counts["allowed"] + c.counts["rate_limit"]
               + c.counts["monthly_limit"] + c.counts["user_not_found"]

Checks == ChecksOf(calls)

(* the bookkeeping of one answered check *)
Answered(c, res, t) ==
  LET r == IF res.allowed THEN "allowed" ELSE res.reason
  IN  [c EXCEPT !.counts[r] = @ + 1, !.last = res,
                !.first = IF ChecksOf(c) = 0 THEN t ELSE @]

----------------------------------------------------------------------------
(* Request headers: a set of [name, value], names in lower case as the
   Headers class keeps them. *)

Header(name, value) == [name |-> name, value |-> value]

NoHeaders == {}

HeaderNames(h) == {x.name : x \in h}

(* what a browser sends through Cloudflare *)
BrowserHeaders ==
  {Header("content-type", "text/plain"),
   Header("accept", "*/*"),
   Header("user-agent", "Mozilla/5.0"),
   Header("cf-connecting-ip", "203.0.113.7"),
   Header("cookie", "session=1"),
   Header("authorization", "Bearer secret")}

InboundHeaders ==
  {NoHeaders,
   {Header("content-type", "application/json"),
    Header("accept", "application/json"),
    Header("cf-connecting-ip", "203.0.113.7")},
   BrowserHeaders,
   {Header("content-type", ""),
    Header("user-agent", "curl/8.0"),
    Header("x-forwarded-for", "198.51.100.9")}}

(* a router that passes the inbound headers on *)
stripPrivacyHeaders_KeepsAll(h) == h

(* const whitelist = ['content-type', 'accept'];
   if (value) headers.set(key, value) *)
stripPrivacyHeaders(h) ==
  {x \in h : x.name \in {"content-type", "accept"} /\ x.value # ""}

(* a proxy that adds its headers to those of the request it was given *)
cleanHeaders_Forwarding(original) ==
  original \cup {Header("content-type", "application/json"),
                 Header("accept", "application/json"),
                 Header("user-agent", "NullRPC/1.0")}

(* lines 264-267: const cleanHeaders = new Headers() and three set calls;
   the headers of originalRequest are not read *)
cleanHeaders(original) ==
  {Header("content-type", "application/json"),
   Header("accept", "application/json"),
   Header("user-agent", "NullRPC/1.0")}

----------------------------------------------------------------------------
(* The I/O log of a call. *)

Ev(op, node, pool, ok, body) ==
  [op |-> op, node |-> node, pool |-> pool, ok |-> ok, body |-> body,
   headers |-> NoHeaders]

(* fetch(targetUrl, { body, headers: cleanHeaders, method }) *)
UpstreamEv(node, pool, ok, body, headers) ==
  [op |-> "upstream", node |-> node, pool |-> pool, ok |-> ok, body |-> body,
   headers |-> headers]

(* trackRequest(env, ctx, data): the data point is recorded (ok) or the sink
   fails; a failure stays inside trackRequest. *)
trackRequest(ok) == Ev("track", 0, "", ok, NoBody)

Upstream(log) == SelectSeq(log, LAMBDA e : e.op = "upstream")
OnPool(log, pool) == SelectSeq(log, LAMBDA e : e.op = "upstream" /\ e.pool = pool)
Ops(log) == {log[i].op : i \in 1..Len(log)}

----------------------------------------------------------------------------
(* ChainDO.fetch, lines 40-97: read the body, sanitise it, classify the
   call and enter the handler of its routing type. *)

DOParse ==
  /\ pc = "do_parse"
  /\ LET method == MethodOf(req.body)
         params == ParamsOf(req.body)
         routingType == determineRoutingType(method, params)
     IN  /\ dobj' = [method |-> method, params |-> params,
                     requestToUse |-> RequestToUse(req.body),
                     routingType |-> routingType]
         /\ IF routingType = "throws"
            THEN result' = DOThrew /\ pc' = "do_return"
            ELSE result' = result /\ pc' = routingType
  /\ UNCHANGED <<pending, limiter, calls, now, db, chainData, lastSync, cache, req, gw, shuffled, response,
                 lastHttpError, io>>

(* a loop that does not return on a success *)
StopsOn_Never(r) == FALSE

(* if (response.ok) return response *)
StopsOn(r) == IsOk(r)

(* One iteration of a `for (const nodeUrl of shuffled.slice(0, n))` loop:
   proxyRequest(nodeUrl, request.clone()), then return on response.ok. *)
LoopAttempt(here, pool) ==
  /\ pc = here
  /\ shuffled # <<>>
  /\ \E r \in ProxyRequest(Head(shuffled)) :
       /\ response' = r
       /\ io' = Append(io, UpstreamEv(Head(shuffled), pool, IsOk(r),
                                      dobj.requestToUse,
                                      cleanHeaders(req.headers)))
       /\ lastHttpError' = IF ~IsOk(r) /\ r.origin # 0 THEN r.body ELSE lastHttpError
       /\ IF StopsOn(r)
          THEN result' = r /\ pc' = "do_return" /\ shuffled' = <<>>
          ELSE result' = result /\ pc' = here /\ shuffled' = Tail(shuffled)
  /\ UNCHANGED <<pending, limiter, calls, now, db, chainData, lastSync, cache, req, gw, dobj>>

(* Leaving a loop whose candidates all failed. *)
LoopExit(here, next, res) ==
  /\ pc = here
  /\ shuffled = <<>>
  /\ pc' = next
  /\ result' = res
  /\ UNCHANGED <<pending, limiter, calls, now, db, chainData, lastSync, cache, req, gw, dobj, shuffled,
                 response, lastHttpError, io>>

(* Entering a loop: shuffle the pool and keep the first n entries. *)
LoopEnter(here, loop, candidates) ==
  /\ pc = here
  /\ \E c \in candidates : shuffled' = c
  /\ pc' = loop
  /\ UNCHANGED <<pending, limiter, calls, now, db, chainData, lastSync, cache, req, gw, dobj, response,
                 lastHttpError, io, result>>

(* An early return or a call of another handler, without any I/O. *)
Goto(here, next, res) ==
  /\ pc = here
  /\ pc' = next
  /\ result' = res
  /\ UNCHANGED <<pending, limiter, calls, now, db, chainData, lastSync, cache, req, gw, dobj, shuffled,
                 response, lastHttpError, io>>

(* loops with a wrong slice *)
StandardCandidates_Unsliced == Shuffle(chainData.nodes)
StandardCandidates_Two == {Slice(sh, 2) : sh \in Shuffle(chainData.nodes)}
MevFallbackCandidates_Two == {Slice(sh, 2) : sh \in Shuffle(chainData.nodes)}

(* an archive loop over the wrong list *)
ArchiveCandidates_FromMev ==
  {Slice(sh, ARCHIVE_BUDGET) : sh \in Shuffle(chainData.mev_nodes)}

(* shuffled.slice(0, n) of each loop *)
MevCandidates == {Slice(sh, MEV_BUDGET) : sh \in Shuffle(chainData.mev_nodes)}
MevFallbackCandidates == {Slice(sh, MEV_FALLBACK_BUDGET) : sh \in Shuffle(chainData.nodes)}
ArchiveCandidates == {Slice(sh, ARCHIVE_BUDGET) : sh \in Shuffle(chainData.archive_nodes)}
StandardCandidates == {Slice(sh, STANDARD_BUDGET) : sh \in Shuffle(chainData.nodes)}

(* handleMevRequest *)
MevEnter ==
  /\ Len(chainData.mev_nodes) > 0
  /\ LoopEnter("mev", "mev_loop", MevCandidates)

MevSkip ==
  /\ Len(chainData.mev_nodes) = 0
  /\ Goto("mev", "mev_fallback", result)

MevAttempt == LoopAttempt("mev_loop", "mev_nodes")

MevExhausted == LoopExit("mev_loop", "mev_fallback", result)

MevFallbackNoNodes ==
  /\ Len(chainData.nodes) = 0
  /\ Goto("mev_fallback", "do_return", NoNodesForTransaction)

MevFallbackEnter ==
  /\ Len(chainData.nodes) # 0
  /\ LoopEnter("mev_fallback", "mev_fallback_loop", MevFallbackCandidates)

MevFallbackAttempt == LoopAttempt("mev_fallback_loop", "nodes")

MevFallbackFailed == LoopExit("mev_fallback_loop", "do_return", AllFailedForTransaction)

(* handleArchiveRequest *)
ArchiveSkip ==
  /\ Len(chainData.archive_nodes) = 0
  /\ Goto("archive", "standard", result)

ArchiveEnter ==
  /\ Len(chainData.archive_nodes) # 0
  /\ LoopEnter("archive", "archive_loop", ArchiveCandidates)

ArchiveAttempt == LoopAttempt("archive_loop", "archive_nodes")

ArchiveExhausted == LoopExit("archive_loop", "standard", result)

(* handleStandardRequest *)
StandardNoNodes ==
  /\ Len(chainData.nodes) = 0
  /\ Goto("standard", "do_return", NoNodesForChain)

StandardEnter ==
  /\ Len(chainData.nodes) # 0
  /\ LoopEnter("standard", "standard_loop", StandardCandidates)

StandardAttempt == LoopAttempt("standard_loop", "nodes")

StandardFailed == LoopExit("standard_loop", "do_return", AllUpstreamFailed)

----------------------------------------------------------------------------
(* SpecDispatch: ChainDO.fetch with the configuration loaded, from the
   parse step to the response it returns. *)

NoRow == NoChainData

(* Nothing awaited: no upstream fetch and no query in flight, the client
   connected. Three fields keep what a property needs of the past:
   lastRead the row the latest read returned, lastRefresh how the latest
   refresh ended ("failed" when line 254 logged an error), and began the
   chainData of the moment the dispatch began. *)
NoPending ==
  [fetches |-> {}, queries |-> {}, client |-> "connected",
   lastRead |-> NoRow, lastRefresh |-> "none", began |-> NoChainData]

DispatchBodies ==
  {Call(S_eth_sendRawTransaction, <<Str(S_0x)>>),
   Call(S_eth_getLogs, <<Obj>>),
   Call(S_eth_blockNumber, <<>>)}

InitDispatch ==
  /\ now = 2 * SYNC_INTERVAL
  /\ \E k \in 0..MaxStd, a \in 0..MaxArch, m \in 0..MaxMev :
       /\ chainData = ChainData(k, a, m)
       /\ db = chainData
  /\ lastSync = now
  /\ cache = {}
  /\ pc = "do_parse"
  /\ \E b \in DispatchBodies : req = [chain |-> Chain, body |-> b, headers |-> NoHeaders,
         path |-> PathOf(Chain), method |-> "POST"]
  /\ gw = NoGw
  /\ dobj = NoDobj
  /\ shuffled = <<>>
  /\ response = NoResponse
  /\ lastHttpError = "none"
  /\ io = <<>>
  /\ result = NoResponse
  /\ limiter = NoLimiter
  /\ calls = NoCalls
  /\ pending = NoPending

NextDispatch ==
  \/ DOParse
  \/ MevEnter
  \/ MevSkip
  \/ MevAttempt
  \/ MevExhausted
  \/ MevFallbackNoNodes
  \/ MevFallbackEnter
  \/ MevFallbackAttempt
  \/ MevFallbackFailed
  \/ ArchiveSkip
  \/ ArchiveEnter
  \/ ArchiveAttempt
  \/ ArchiveExhausted
  \/ StandardNoNodes
  \/ StandardEnter
  \/ StandardAttempt
  \/ StandardFailed

SpecDispatch == InitDispatch /\ [][NextDispatch]_vars

----------------------------------------------------------------------------
(* Properties of the dispatch (SpecDispatch). *)

Routing == dobj.routingType

(* The handler of the call has returned its response. *)
DispatchEnded ==
  /\ pc \in {"do_return", "done"}
  /\ Routing \in {"mev", "archive", "standard"}

Attempts == Upstream(io)
AttemptsOn(pool) == OnPool(io, pool)
SomeSuccess == \E i \in 1..Len(Attempts) : Attempts[i].ok

(* every attempt on pool `first` precedes every attempt on pool `second` *)
Precedes(first, second) ==
  \A i, j \in 1..Len(Attempts) :
     (Attempts[i].pool = second /\ Attempts[j].pool = first) => j < i

(* C1, as claimed: the attempts of a dispatch stay within the budget of its
   category: 3 for standard, 3 for archive, 2 on mevNodes then 3 on
   standardNodes for mev. *)
C1_BudgetAsClaimed ==
  /\ Routing = "standard" => Len(Attempts) <= 3
  /\ Routing = "archive" => Len(Attempts) <= 3
  /\ Routing = "mev" =>
       /\ Len(AttemptsOn("mev_nodes")) <= 2
       /\ Len(AttemptsOn("nodes")) <= 3
       /\ Len(AttemptsOn("archive_nodes")) = 0
       /\ Precedes("mev_nodes", "nodes")

(* C1, amended: 3 for standard; for archive 3 on archiveNodes followed by 3
   on standardNodes; for mev 2 on mevNodes followed by 3 on standardNodes. *)
C1_Budget ==
  /\ Routing = "standard" =>
       /\ Len(Attempts) <= 3
       /\ Len(AttemptsOn("nodes")) = Len(Attempts)
  /\ Routing = "archive" =>
       /\ Len(AttemptsOn("archive_nodes")) <= 3
       /\ Len(AttemptsOn("nodes")) <= 3
       /\ Len(AttemptsOn("mev_nodes")) = 0
       /\ Precedes("archive_nodes", "nodes")
  /\ Routing = "mev" =>
       /\ Len(AttemptsOn("mev_nodes")) <= 2
       /\ Len(AttemptsOn("nodes")) <= 3
       /\ Len(AttemptsOn("archive_nodes")) = 0
       /\ Precedes("mev_nodes", "nodes")

(* an archive call that used both budgets: six attempts *)
C1_Witness ==
  /\ DispatchEnded
  /\ Routing = "archive"
  /\ Len(AttemptsOn("archive_nodes")) = 3
  /\ Len(AttemptsOn("nodes")) = 3

(* C2: an attempt that returned a success status is the last attempt of
   its dispatch, the handler has returned, and what it returned is the
   response of that attempt. *)
C2_FirstSuccessReturned ==
  \A i \in 1..Len(Attempts) :
     Attempts[i].ok =>
        /\ i = Len(Attempts)
        /\ pc \in {"do_return", "done"}
        /\ result = UpstreamOk(Attempts[i].node)

(* a success on the second candidate of four, the other two left untried *)
C2_Witness ==
  /\ DispatchEnded
  /\ Routing = "standard"
  /\ Len(chainData.nodes) = 4
  /\ Len(Attempts) = 2
  /\ ~Attempts[1].ok
  /\ Attempts[2].ok
  /\ result = UpstreamOk(Attempts[2].node)

FailedNodes == {Attempts[i].node : i \in {j \in 1..Len(Attempts) : ~Attempts[j].ok}}

(* C3: a standard call on a pool of at most 3 nodes ends in a failure only
   when every node of the pool was asked and answered with a failure; when
   a node answered with a success, the response of a node of the pool is
   returned. *)
C3_SmallPoolFindsHealthyNode ==
  (DispatchEnded /\ Routing = "standard" /\ Len(chainData.nodes) <= 3) =>
     /\ ~IsOk(result) => (Range(chainData.nodes) \subseteq FailedNodes /\ ~SomeSuccess)
     /\ SomeSuccess =>
          /\ IsOk(result)
          /\ result.origin \in Range(chainData.nodes)
          /\ result.status # 502

(* nodes = [A, B, C], two fail, the third succeeds *)
C3_Witness ==
  /\ DispatchEnded
  /\ Routing = "standard"
  /\ Len(chainData.nodes) = 3
  /\ Len(Attempts) = 3
  /\ ~Attempts[1].ok /\ ~Attempts[2].ok /\ Attempts[3].ok
  /\ result = UpstreamOk(Attempts[3].node)

(* The runs of the standard algorithm (handleStandardRequest) on the pool
   `nodes`: attempts on distinct entries of nodes only, at most 3, all but
   the last failed; 503 for an empty pool, the response of the successful
   attempt, or 502 after min(3, |nodes|) failures. *)
IsStandardRun(log, nodes, res) ==
  LET ups == Upstream(log) IN
  /\ \A i \in 1..Len(ups) : ups[i].pool = "nodes" /\ ups[i].node \in Range(nodes)
  /\ \A i, j \in 1..Len(ups) : i # j => ups[i].node # ups[j].node
  /\ Len(ups) <= 3
  /\ \A i \in 1..Len(ups) : ups[i].ok => i = Len(ups)
  /\ IF nodes = <<>> THEN res.status = 503 /\ ups = <<>>
     ELSE IF ups # <<>> /\ ups[Len(ups)].ok THEN res = UpstreamOk(ups[Len(ups)].node)
     ELSE res.status = 502 /\ Len(ups) = Min(3, Len(nodes))

PrimaryPoolEmpty ==
  \/ Routing = "mev" /\ chainData.mev_nodes = <<>>
  \/ Routing = "archive" /\ chainData.archive_nodes = <<>>

(* C4: with an empty primary pool a mev or archive dispatch is a run of the
   standard algorithm on standardNodes, as every standard dispatch is. *)
C4_EmptyPrimaryIsStandard ==
  (DispatchEnded /\ (PrimaryPoolEmpty \/ Routing = "standard")) =>
     IsStandardRun(io, chainData.nodes, result)

(* mev call, no mev node, four standard nodes: three failures, then 502 *)
C4_Witness ==
  /\ DispatchEnded
  /\ Routing = "mev"
  /\ chainData.mev_nodes = <<>>
  /\ Len(chainData.nodes) = 4
  /\ Len(Attempts) = 3
  /\ result.status = 502

PoolsOfRouting ==
  CASE Routing = "mev" -> chainData.mev_nodes \o chainData.nodes
    [] Routing = "archive" -> chainData.archive_nodes \o chainData.nodes
    [] OTHER -> chainData.nodes

(* C5, as claimed: no candidate at all gives 503; a budget exhausted on a
   non-empty pool gives 502. *)
C5_AsClaimed ==
  DispatchEnded =>
     /\ PoolsOfRouting = <<>> => result.status = 503
     /\ (Attempts # <<>> /\ ~SomeSuccess) => result.status = 502

(* C5, amended: a dispatch without a successful attempt returns 503 when
   standardNodes is empty, also after failed attempts on mevNodes or
   archiveNodes, and 502 when standardNodes is not empty. *)
C5_EmptyPoolIs503 ==
  DispatchEnded =>
     /\ PoolsOfRouting = <<>> => (result.status = 503 /\ Attempts = <<>>)
     /\ (~SomeSuccess /\ chainData.nodes = <<>>) => result.status = 503
     /\ (~SomeSuccess /\ chainData.nodes # <<>>) =>
          /\ result.status = 502
          /\ Len(AttemptsOn("nodes")) = Min(3, Len(chainData.nodes))
     /\ result.status \in {502, 503} => (result.origin = 0 /\ ~SomeSuccess)

(* mev nodes were tried and failed, standardNodes is empty: 503 *)
C5_Witness ==
  /\ DispatchEnded
  /\ Routing = "mev"
  /\ Len(AttemptsOn("mev_nodes")) = 2
  /\ chainData.nodes = <<>>
  /\ result.status = 503

AggregateFailures == {AllUpstreamFailed, AllFailedForTransaction}

(* C6, as claimed: the aggregate failure carries the last non-success
   status observed, and is generic only if every attempt was a transport
   error. *)
C6_AsClaimed ==
  (DispatchEnded /\ result.status = 502) =>
     /\ lastHttpError # "none" => result.details = lastHttpError
     /\ result.details = "none" => lastHttpError = "none"

(* C6, amended: the aggregate failure is one fixed generic 502 response per
   handler and carries no upstream error, whatever the attempts returned;
   no response of a failed attempt is returned. *)
C6_AggregateIsGeneric ==
  (DispatchEnded /\ ~IsOk(result) /\ Attempts # <<>> /\ chainData.nodes # <<>>) =>
     /\ result = IF Routing = "mev" THEN Resp(502, 0, "All nodes failed for transaction", "none")
                 ELSE Resp(502, 0, "All upstream nodes failed", "none")
     /\ result # response
     /\ result.details = "none"

(* budget exhausted, the last attempt answered with an error status *)
C6_Witness ==
  /\ DispatchEnded
  /\ result.status = 502
  /\ response.status = 500
  /\ lastHttpError = response.body

----------------------------------------------------------------------------
(* SpecClassify: the parse-and-classify step of ChainDO.fetch over a matrix
   of single calls: every method below with every parameter list below. *)

ClassifyMethods ==
  blockMethods \cup
  {S_eth_sendRawTransaction, S_eth_getLogs, S_trace_block, S_debug_traceCall,
   S_trace_, S_tracer, S_eth_blockNumber, S_eth_getBlockByNumber, S_unknown}

(* last parameters: block tags, hexadecimal numbers around zero and around
   the threshold 15000000 = 0xe4e1c0, text that is no number, and values
   that are no string *)
ClassifyLastParams ==
  {Str(S_earliest), Str(S_latest), Str(S_pending),
   Str(<<"0", "x", "0">>), Str(<<"0", "x", "1">>), Str(<<"0", "x", "1", "0">>),
   Str(<<"0", "x", "4", "9", "3", "E", "0">>),
   Str(<<"0", "x", "e", "4", "e", "1", "b", "f">>),
   Str(<<"0", "x", "e", "4", "e", "1", "c", "0">>),
   Str(<<"0", "x", "E", "4", "E", "1", "B", "F">>),
   Str(<<"0", "x", "f", "f", "f", "f", "f", "f">>),
   Str(S_0x), Str(<<"0", "x", "g">>), Str(<<"1", "0">>), Str(<<>>),
   Num, Obj}

Address == Str(<<"0", "x", "d", "8", "d", "A", "6", "B", "F">>)

ClassifyParams ==
  {NoParams, ParamsObject, ParamList(<<>>)}
  \cup {ParamList(<<p>>) : p \in ClassifyLastParams}
  \cup {ParamList(<<Address, p>>) : p \in ClassifyLastParams}

ClassifyBodies ==
  {Single("2.0", Str(m), ps, FALSE) : m \in ClassifyMethods, ps \in ClassifyParams}
  \cup {Single("2.0", Num, ps, FALSE) : ps \in {NoParams, ParamList(<<>>)}}
  \cup {Single("2.0", Absent, ps, FALSE) : ps \in {NoParams, ParamList(<<>>)}}

InitClassify ==
  /\ now = 2 * SYNC_INTERVAL
  /\ chainData = ChainData(1, 1, 1)
  /\ db = chainData
  /\ lastSync = now
  /\ cache = {}
  /\ pc = "do_parse"
  /\ \E b \in ClassifyBodies : req = [chain |-> Chain, body |-> b, headers |-> NoHeaders,
         path |-> PathOf(Chain), method |-> "POST"]
  /\ gw = NoGw
  /\ dobj = NoDobj
  /\ shuffled = <<>>
  /\ response = NoResponse
  /\ lastHttpError = "none"
  /\ io = <<>>
  /\ result = NoResponse
  /\ limiter = NoLimiter
  /\ calls = NoCalls
  /\ pending = NoPending

NextClassify == DOParse

SpecClassify == InitClassify /\ [][NextClassify]_vars

(* The call has been classified. *)
Classified == pc # "do_parse" /\ Routing # "none"

(* a hex-encoded number: 0x followed by one or more hexadecimal digits *)
IsHexEncoded(p) ==
  /\ p.t = "string"
  /\ StartsWith(p.s, S_0x)
  /\ Len(p.s) > Len(S_0x)
  /\ \A i \in (Len(S_0x) + 1)..Len(p.s) : IsHexDigit(p.s[i])

HexEncodedValue(p) == HexNumber(SubSeq(p.s, Len(S_0x) + 1, Len(p.s)))

(* C7: for the five block-parameterized methods and every params list the
   call is classified archive iff its last parameter is "earliest" or a
   hex-encoded number below 15000000, zero included, and standard in every
   other case. *)
C7_ArchiveIffOldBlock ==
  (Classified /\ req.body.method.t = "string" /\ req.body.method.s \in blockMethods
     /\ req.body.params.t = "list") =>
     LET last == LastParam(req.body.params)
         old  == \/ last = Str(S_earliest)
                 \/ IsHexEncoded(last) /\ HexEncodedValue(last) < 15000000
     IN  /\ old => Routing = "archive"
         /\ ~old => Routing = "standard"

(* C8: eth_sendRawTransaction is classified mev, and trace_*, debug_* and
   eth_getLogs are classified archive, whatever the params of the call. *)
C8_MethodDecidesRouting ==
  (Classified /\ req.body.kind = "single" /\ req.body.method.t = "string") =>
     LET m == req.body.method.s IN
     /\ m = S_eth_sendRawTransaction => Routing = "mev"
     /\ (StartsWith(m, S_trace_) \/ StartsWith(m, S_debug_) \/ m = S_eth_getLogs) =>
          Routing = "archive"

(* a debug_ call whose last parameter is a recent block tag *)
C8_Witness ==
  /\ Classified
  /\ req.body.method.s = S_debug_traceCall
  /\ LastParam(req.body.params) = Str(S_latest)
  /\ Routing = "archive"

----------------------------------------------------------------------------
(* Spec: the worker, call after call. *)

(* worker fetch, POST /:chain: a call arrives *)
GwBodies ==
  {Malformed(1),
   Batch(<<>>),
   Batch(<<Call(S_eth_chainId, <<>>), Call(S_eth_sendRawTransaction, <<Str(S_0x)>>)>>),
   Call(S_eth_chainId, <<>>),
   Call(S_eth_sendRawTransaction, <<Str(S_0x)>>),
   Call(S_eth_getLogs, <<Obj>>),
   Single("2.0", Str(S_eth_blockNumber), ParamList(<<>>), TRUE),
   Single("absent", Str(S_eth_chainId), ParamList(<<>>), FALSE)}

(* The router: URL paths are sequences of characters. *)

(* path.indexOf(ch, from): positions count from 0, -1 when absent *)
IndexOf(path, ch, from) ==
  LET hits == {i \in from..(Len(path) - 1) : path[i + 1] = ch}
  IN  IF hits = {} THEN 0 - 1 ELSE CHOOSE i \in hits : \A j \in hits : i <= j

(* path.slice(from, to) and path.slice(from) *)
PathSlice(path, from, to) == SubSeq(path, from + 1, to)
PathRest(path, from) == SubSeq(path, from + 1, Len(path))

(* path.split('/').pop() || '' *)
LastSegment(path) ==
  LET slashes == {i \in 1..Len(path) : path[i] = Slash}
  IN  IF slashes = {} THEN path
      ELSE SubSeq(path, (CHOOSE i \in slashes : \A j \in slashes : j <= i) + 1, Len(path))

PathChains == <<Slash, "c", "h", "a", "i", "n", "s">>
PathAnalytics == <<Slash, "a", "n", "a", "l", "y", "t", "i", "c", "s">>

(* the response of a handler that is not an RPC call *)
Page(kind) == Resp(200, 0, kind, "none")

(* new Response('Not Found', { status: 404 }) *)
NotFound == Resp(404, 0, "Not Found", "none")

(* new Response('Chain not found', { status: 404 }) *)
ChainNotFound == Resp(404, 0, "Chain not found", "none")

(* the route of a call: kind "rpc" with the chain, or the handler that
   answers it *)
Routed(kind, chain) == [kind |-> kind, chain |-> chain]

(* lines 137-155: the part of the path after the chain *)
TokenRoute(path, chain, nextSlash) ==
  LET tokenStart == nextSlash + 1
      tokenEnd == IndexOf(path, Slash, tokenStart)
  IN  IF tokenEnd = 0 - 1 /\ PathRest(path, tokenStart) = <<>>
      THEN Routed("rpc", chain)
      ELSE Routed("notfound", chain)

(* lines 108-155: the manual routing on the path *)
SegmentRoute(path, method) ==
  LET start == IF path # <<>> /\ path[1] = Slash THEN 1 ELSE 0
      nextSlash == IndexOf(path, Slash, start)
  IN  IF nextSlash = 0 - 1
      THEN IF PathRest(path, start) = <<>> THEN Routed("root", <<>>)
           ELSE IF method = "GET" THEN Routed("chainpage", PathRest(path, start))
           ELSE Routed("rpc", PathRest(path, start))
      ELSE IF PathSlice(path, start, nextSlash) = <<>> THEN Routed("notfound", <<>>)
           ELSE TokenRoute(path, PathSlice(path, start, nextSlash), nextSlash)

(* lines 70-155: static assets, /chains, /analytics, then the segments *)
RouteTo(path, method, assets) ==
  LET hasExtension == \E i \in 1..Len(LastSegment(path)) : LastSegment(path)[i] = "."
      isRoot == path = <<Slash>> \/ path = <<>>
  IN  IF (hasExtension \/ isRoot) /\ assets THEN Routed("assets", <<>>)
      ELSE IF isRoot THEN Routed("root", <<>>)
      ELSE IF path = PathChains THEN Routed("chains", <<>>)
      ELSE IF StartsWith(path, PathAnalytics) THEN Routed("analytics", <<>>)
      ELSE SegmentRoute(path, method)

(* fetch of the worker: strip the headers, route on the path, and either
   answer at once or go to the rate limit check of a public call.
   handleChainPage answers null for a chain it does not know. *)
RouterFetch(paths, methods, inbound, bodies) ==
  /\ pc = "idle"
  /\ \E path \in paths, method \in methods, h \in inbound, b \in bodies,
        assets \in BOOLEAN, known \in BOOLEAN :
       LET route == RouteTo(path, method, assets)
       IN  /\ req' = [chain |-> SlugOf(route.chain), body |-> b,
                      headers |-> stripPrivacyHeaders(h),
                      path |-> path, method |-> method]
           /\ IF route.kind = "rpc"
              THEN pc' = "ratelimit" /\ result' = result
              ELSE /\ pc' = "done"
                   /\ result' = IF route.kind = "notfound" THEN NotFound
                                ELSE IF route.kind = "chainpage" /\ ~known
                                     THEN ChainNotFound
                                     ELSE Page(route.kind)
  /\ UNCHANGED <<pending, limiter, calls, now, db, chainData, lastSync, cache, gw, dobj, shuffled, response,
                 lastHttpError, io>>

(* POST /eth with the body of an RPC call *)
RouteOf(bodies) == RouterFetch({PathOf(Chain)}, {"POST"}, {BrowserHeaders}, bodies)

Route == RouteOf(GwBodies)

(* a handler that goes on to handleRequest after a rejection *)
AfterRateLimit_AlwaysHandles(success) == "gw_parse"

(* lines 175-179: if (!success) return 429, else handleRequest *)
AfterRateLimit(success) == IF success THEN "gw_parse" ELSE "done"

(* checkRateLimitAndHandlePublic: env.RATE_LIMITER.limit({ key: clientIp }) *)
CheckRateLimit ==
  /\ pc = "ratelimit"
  /\ \E success \in BOOLEAN :
       /\ io' = Append(io, Ev("limit", 0, "", success, NoBody))
       /\ pc' = AfterRateLimit(success)
       /\ result' = IF success THEN result ELSE RateLimitExceeded
  /\ UNCHANGED <<pending, limiter, calls, now, db, chainData, lastSync, cache, req, gw, dobj, shuffled,
                 response, lastHttpError>>

(* handleRequest, lines 13-99: the cache decision, the lookup, and the
   answer from the cache on a hit. ctx is always passed by the router. A
   lookup that throws is caught at line 73: cacheKeyUrl and ttl are already
   set, cachedResponse stays null and cacheStatus stays NONE. *)
HandleRequestLookup ==
  /\ pc = "gw_parse"
  /\ LET d == CacheDecision(req.chain, req.body) IN
     IF d.cacheStatus = "LOOKUP"
     THEN \/ LET found == getCachedResponse(d.cacheKeyUrl) IN
             \E tracked \in BOOLEAN :
               /\ gw' = [d EXCEPT !.cacheStatus = IF found # {} THEN "HIT" ELSE "MISS"]
               /\ IF ServedFromCache(found)
                  THEN /\ io' = io \o <<Ev("cache.match", 0, "", found # {}, req.body),
                                        trackRequest(tracked)>>
                       /\ result' = HitResponse(CHOOSE r \in found : TRUE)
                       /\ pc' = "done"
                  ELSE /\ tracked
                       /\ io' = Append(io, Ev("cache.match", 0, "", found # {}, req.body))
                       /\ result' = result
                       /\ pc' = "do_ensure"
          \/ /\ gw' = [d EXCEPT !.cacheStatus = "NONE"]
             /\ io' = Append(io, Ev("cache.error", 0, "", FALSE, req.body))
             /\ result' = CatchLookupError(result).result
             /\ pc' = CatchLookupError(result).pc
     ELSE /\ gw' = d
          /\ io' = io
          /\ result' = result
          /\ pc' = "do_ensure"
  /\ UNCHANGED <<pending, limiter, calls, now, db, chainData, lastSync, cache, req, dobj, shuffled, response,
                 lastHttpError>>

(* ChainDO.fetch, lines 22-30, with ensureChainData: reload the row when
   nothing is loaded or the last load is SYNC_INTERVAL old; the query may
   throw, and then the loaded data is kept. *)
(* a check that still trusts data that is exactly SYNC_INTERVAL old *)
ConfigIsFresh_Inclusive == chainData.present /\ now - lastSync <= SYNC_INTERVAL

(* line 231: this.chainData && now - this.lastSync < this.SYNC_INTERVAL *)
ConfigIsFresh == chainData.present /\ now - lastSync < SYNC_INTERVAL

(* a catch block that forgets the loaded data *)
AfterQueryError_Forgets(data) == NoChainData

(* lines 253-259: the catch block leaves this.chainData as it is *)
AfterQueryError(data) == data

EnsureChainData ==
  /\ pc = "do_ensure"
  /\ IF ConfigIsFresh
     THEN UNCHANGED <<pending, limiter, calls, chainData, lastSync, io>>
     ELSE \E threw \in BOOLEAN :
            /\ io' = Append(io, Ev("db", 0, "", ~threw, NoBody))
            /\ IF threw
               THEN chainData' = AfterQueryError(chainData) /\ lastSync' = lastSync
               ELSE IF db.present THEN chainData' = db /\ lastSync' = now
               ELSE chainData' = NoChainData /\ lastSync' = lastSync
  /\ IF chainData'.present
     THEN pc' = "do_parse" /\ result' = result
     ELSE pc' = "do_return" /\ result' = NotConfigured
  /\ UNCHANGED <<pending, limiter, calls, now, db, cache, req, gw, dobj, shuffled, response, lastHttpError>>

(* handleRequest, lines 104-132: the response of the ChainDO is tracked,
   written to the cache when the call had a key, and returned. The write is
   handed to ctx.waitUntil: when caches.default.put rejects, nothing is
   stored and the response is returned all the same. An exception of the
   ChainDO passes through handleRequest. *)
HandleRequestReturn ==
  /\ pc = "do_return"
  /\ IF Routing = "throws"
     THEN UNCHANGED <<pending, limiter, calls, cache, io>>
     ELSE \E tracked \in BOOLEAN, stored \in BOOLEAN :
            LET t == IF gw.isValidRpc THEN <<trackRequest(tracked)>> ELSE <<>> IN
            /\ ~gw.isValidRpc => tracked
            /\ IF ShouldCache(gw, result)
               THEN /\ cache' = IF stored
                                THEN CachePut(gw.cacheKeyUrl, result, gw.ttl)
                                ELSE cache
                    /\ io' = io \o t \o <<Ev("cache.put", 0, "", stored, req.body)>>
               ELSE /\ stored
                    /\ cache' = cache
                    /\ io' = io \o t
  /\ pc' = "done"
  /\ UNCHANGED <<pending, limiter, calls, now, db, chainData, lastSync, req, gw, dobj, shuffled, response,
                 lastHttpError, result>>

(* The call is over; dt milliseconds pass before the next one, and the
   Cache API drops the entries whose max-age has passed. *)
CallEnds(dt) ==
  /\ pc = "done"
  /\ pc' = "idle"
  /\ now' = now + dt
  /\ req' = [chain |-> Chain, body |-> NoBody, headers |-> NoHeaders,
         path |-> PathOf(Chain), method |-> "POST"]
  /\ gw' = NoGw
  /\ dobj' = NoDobj
  /\ shuffled' = <<>>
  /\ response' = NoResponse
  /\ lastHttpError' = "none"
  /\ io' = <<>>
  /\ result' = NoResponse
  /\ cache' = {e \in cache : FreshAt(e, now')}
  /\ UNCHANGED <<pending, limiter, calls, db, chainData, lastSync>>

NextCall ==
  \E dt \in {0, SYNC_INTERVAL \div 2} :
    /\ now + dt <= 2 * SYNC_INTERVAL + MaxTicks * (SYNC_INTERVAL \div 2)
    /\ CallEnds(dt)

(* The Cache API drops an entry before its max-age has passed: the cache
   is free to evict. *)
CacheExpire ==
  /\ pc = "idle"
  /\ \E e \in cache : cache' = cache \ {e}
  /\ UNCHANGED <<pending, limiter, calls, now, db, chainData, lastSync, pc, req, gw, dobj, shuffled, response,
                 lastHttpError, io, result>>

Init ==
  /\ now = 2 * SYNC_INTERVAL
  /\ \/ db = NoRow
     \/ \E k \in {0, GwMaxPool}, a \in {0, GwMaxPool}, m \in {0, GwMaxPool} :
          db = ChainData(k, a, m)
  /\ chainData = NoChainData
  /\ lastSync = 0
  /\ cache = {}
  /\ pc = "idle"
  /\ req = [chain |-> Chain, body |-> NoBody, headers |-> NoHeaders,
         path |-> PathOf(Chain), method |-> "POST"]
  /\ gw = NoGw
  /\ dobj = NoDobj
  /\ shuffled = <<>>
  /\ response = NoResponse
  /\ lastHttpError = "none"
  /\ io = <<>>
  /\ result = NoResponse
  /\ limiter = NoLimiter
  /\ calls = NoCalls
  /\ pending = NoPending

Next ==
  \/ Route
  \/ CheckRateLimit
  \/ HandleRequestLookup
  \/ EnsureChainData
  \/ NextDispatch
  \/ HandleRequestReturn
  \/ NextCall
  \/ CacheExpire

Spec == Init /\ [][Next]_vars

----------------------------------------------------------------------------
(* Properties of the whole call (Spec). *)

CacheOps == {"cache.match", "cache.put"}

(* C9: a call whose body is no JSON is classified standard, reaches only
   nodes of chainData.nodes, is sent upstream with the body it came with,
   and causes neither a cache lookup nor a cache write. *)
C9_MalformedIsStandardUncached ==
  req.body.kind = "malformed" =>
     /\ Routing \in {"none", "standard"}
     /\ pc \notin {"mev", "mev_loop", "mev_fallback", "mev_fallback_loop",
                   "archive", "archive_loop"}
     /\ \A i \in 1..Len(Attempts) :
          /\ Attempts[i].pool = "nodes"
          /\ Attempts[i].node \in Range(chainData.nodes)
          /\ Attempts[i].body = req.body
     /\ Ops(io) \cap CacheOps = {}
     /\ gw.cacheKeyUrl = NoKey
     /\ result.xcache # "HIT"
     /\ cache = {e \in cache : e.key.body.kind # "malformed"}

(* unparsable text answered by a standard node of a chain that also has
   mev and archive nodes *)
C9_Witness ==
  /\ req.body.kind = "malformed"
  /\ pc = "done"
  /\ chainData.mev_nodes # <<>>
  /\ chainData.archive_nodes # <<>>
  /\ Len(Attempts) = 1
  /\ Attempts[1].body = req.body
  /\ IsOk(result)

(* C10: a batch has no cache key: it causes no cache lookup and no cache
   write, is not answered from the cache, and no entry is ever stored
   under a batch body. *)
C10_BatchBypassesCache ==
  /\ req.body.kind = "batch" =>
       /\ Ops(io) \cap CacheOps = {}
       /\ gw.cacheKeyUrl = NoKey
       /\ gw.cacheStatus \notin {"HIT", "MISS"}
       /\ result.xcache # "HIT"
  /\ \A e \in cache : e.key.body.kind # "batch"

(* a batch holding a cacheable method, answered by a node while the cache
   holds the answer to that method asked alone *)
C10_Witness ==
  /\ req.body.kind = "batch"
  /\ req.body.items # <<>>
  /\ req.body.items[1] = Call(S_eth_chainId, <<>>)
  /\ pc = "done"
  /\ IsOk(result)
  /\ \E e \in cache : e.key = calculateCacheKey(Chain, Call(S_eth_chainId, <<>>))

----------------------------------------------------------------------------
(* SpecDecide: the cache decision of handleRequest over a matrix of single
   calls on two chains, with a cache that is empty or holds one response
   stored for one of the chains. *)

DecideChains == {Chain, "bsc"}

DecideMethods ==
  {S_eth_blockNumber, S_eth_gasPrice, S_eth_getBalance, S_eth_call,
   S_eth_estimateGas, S_eth_chainId, S_net_version, S_web3_clientVersion,
   S_eth_getBlockByHash, S_eth_getTransactionReceipt, S_eth_getBlockByNumber,
   S_eth_getCode, S_eth_getTransactionCount, S_eth_getStorageAt,
   S_eth_sendRawTransaction, S_eth_getLogs, S_trace_block, S_unknown}

DecideBlockParams == ClassifyLastParams \cup {Str(S_safe), Str(S_finalized)}

DecideParams ==
  {NoParams, ParamsObject, ParamList(<<>>)}
  \cup {ParamList(<<p>>) : p \in DecideBlockParams}
  \cup {ParamList(<<p, Num>>) : p \in DecideBlockParams}
  \cup {ParamList(<<Address, p>>) : p \in DecideBlockParams}

DecideBodies ==
  {Single("2.0", Str(m), ps, FALSE) : m \in DecideMethods, ps \in DecideParams}

StoredBodies ==
  {Call(S_eth_chainId, <<>>), Call(S_eth_getBalance, <<Address, Str(S_latest)>>)}

(* the entry a call of body b on chain c leaves in the cache *)
StoredEntry(c, b, t) ==
  [key |-> calculateCacheKey(c, b), resp |-> UpstreamOk(NodeUrl(100, 1)),
   ttl |-> getCacheTtl(b.method.s, b.params).ttl, at |-> t]

InitDecide ==
  /\ now = 2 * SYNC_INTERVAL
  /\ chainData = ChainData(1, 1, 1)
  /\ db = chainData
  /\ lastSync = now
  /\ \/ cache = {}
     \/ \E c \in DecideChains, b \in StoredBodies : cache = {StoredEntry(c, b, now)}
  /\ pc = "gw_parse"
  /\ \E c \in DecideChains, b \in DecideBodies : req = [chain |-> c, body |-> b, headers |-> NoHeaders,
         path |-> PathOf(c), method |-> "POST"]
  /\ gw = NoGw
  /\ dobj = NoDobj
  /\ shuffled = <<>>
  /\ response = NoResponse
  /\ lastHttpError = "none"
  /\ io = <<>>
  /\ result = NoResponse
  /\ limiter = NoLimiter
  /\ calls = NoCalls
  /\ pending = NoPending

NextDecide == HandleRequestLookup

SpecDecide == InitDecide /\ [][NextDecide]_vars

(* The cache decision of the call has been taken. *)
Decided == pc # "gw_parse" /\ req.body.kind = "single"

DecidedMethod == req.body.method.s

(* the first parameter of the call, Absent when the list is empty *)
FirstParamOfCall ==
  IF req.body.params.t = "list" /\ req.body.params.list # <<>>
  THEN req.body.params.list[1] ELSE Absent

ClaimedLongMethods == {S_eth_chainId, S_eth_getTransactionReceipt, S_eth_getBlockByHash}
ClaimedShortMethods ==
  {S_eth_blockNumber, S_eth_gasPrice, S_eth_getBalance, S_eth_call, S_eth_estimateGas}
ClaimedTable == ClaimedLongMethods \cup ClaimedShortMethods \cup {S_eth_getBlockByNumber}

(* C11 as stated: the TTL is 900 for eth_chainId, eth_getTransactionReceipt
   and eth_getBlockByHash, 1 for the five volatile methods, and 0 for every
   method outside the table. *)
C11_AsClaimed ==
  Decided =>
     /\ DecidedMethod \in ClaimedLongMethods => gw.ttl = 900
     /\ DecidedMethod \in ClaimedShortMethods => gw.ttl = 1
     /\ DecidedMethod \notin ClaimedTable => gw.ttl = 0

(* C11: whatever the params, the TTL is 900 for eth_chainId, net_version,
   web3_clientVersion, eth_getTransactionReceipt and eth_getBlockByHash, 1
   for eth_blockNumber, eth_gasPrice, eth_getBalance, eth_call and
   eth_estimateGas, and 0, without a cache key, for every other method but
   eth_getBlockByNumber. *)
C11_TtlTable ==
  Decided =>
     /\ DecidedMethod \in ClaimedLongMethods \cup {S_net_version, S_web3_clientVersion}
          => gw.ttl = 900
     /\ DecidedMethod \in ClaimedShortMethods => gw.ttl = 1
     /\ DecidedMethod \notin ClaimedTable \cup {S_net_version, S_web3_clientVersion}
          => gw.ttl = 0 /\ gw.cacheStatus = "BYPASS" /\ gw.cacheKeyUrl = NoKey

(* net_version has been given the long TTL *)
C11_Witness ==
  /\ Decided
  /\ DecidedMethod = S_net_version
  /\ gw.ttl = 900
  /\ gw.cacheStatus = "MISS"

(* C12: for eth_getBlockByNumber with params the TTL is 1 when the first
   parameter is latest, earliest, pending, safe or finalized, and 900 for
   every other first parameter, a missing one included. *)
C12_BlockByNumberTtl ==
  (Decided /\ DecidedMethod = S_eth_getBlockByNumber /\ req.body.params.t # "absent") =>
     IF FirstParamOfCall \in {Str(S_latest), Str(S_earliest), Str(S_pending),
                              Str(S_safe), Str(S_finalized)}
     THEN gw.ttl = 1
     ELSE gw.ttl = 900

(* eth_getBlockByNumber("safe", _) has been given the short TTL *)
C12_Witness ==
  /\ Decided
  /\ DecidedMethod = S_eth_getBlockByNumber
  /\ req.body.params = ParamList(<<Str(S_safe), Num>>)
  /\ gw.ttl = 1

(* C13: for eth_call and eth_getBalance the TTL is 900 when the block
   parameter is a hex-encoded block number and 1 when it is "latest". *)
C13_BlockDependentCallTtl ==
  (Decided /\ DecidedMethod \in {S_eth_call, S_eth_getBalance}
     /\ req.body.params.t = "list" /\ req.body.params.list # <<>>) =>
     LET block == LastParam(req.body.params) IN
     /\ IsHexEncoded(block) => gw.ttl = 900
     /\ block = Str(S_latest) => gw.ttl = 1

(* C15: the key the handler computes belongs to its chain and body alone:
   no call of the matrix on another chain or with another body has the same
   key, and a call is answered from the cache only by an entry stored under
   its own chain and body. *)
C15_KeySeparatesChains ==
  (Decided /\ gw.cacheKeyUrl # NoKey) =>
     /\ \A c \in DecideChains, b \in DecideBodies :
          calculateCacheKey(c, b) = gw.cacheKeyUrl <=> (c = req.chain /\ b = req.body)
     /\ \A e \in cache :
          e.key = gw.cacheKeyUrl <=> (e.key.chain = req.chain /\ e.key.body = req.body)
     /\ gw.cacheStatus = "HIT" =>
          \E e \in cache : e.key.chain = req.chain /\ e.key.body = req.body

(* eth_chainId on one chain misses while the cache holds the answer to the
   same body on the other chain *)
C15_Witness ==
  /\ Decided
  /\ req.body = Call(S_eth_chainId, <<>>)
  /\ gw.cacheStatus = "MISS"
  /\ \E e \in cache : e.key.body = req.body /\ e.key.chain # req.chain /\ Fresh(e)

----------------------------------------------------------------------------
(* Properties of the cache path of a call (Spec). *)

AllCacheOps == {"cache.match", "cache.put", "cache.error"}

(* The rate limiter has let the call pass. *)
LimitPassed == io # <<>> /\ io[1].op = "limit" /\ io[1].ok

(* stub.fetch has been called: the ChainDO has classified the call or has
   found the chain not configured *)
DispatcherReached == Routing # "none" \/ result = NotConfigured

(* a single JSON-RPC call whose method has TTL 0 *)
TtlZeroCall ==
  /\ req.body.kind = "single"
  /\ req.body.jsonrpc = "2.0"
  /\ req.body.method.t = "string"
  /\ getCacheTtl(req.body.method.s, req.body.params) = [throws |-> FALSE, ttl |-> 0]

(* C14: a single call whose method has TTL 0 causes no cache lookup and no
   cache write, is not answered from the cache, leaves no entry under its
   body, and once past the rate limiter ends only after the ChainDO has been
   called. *)
C14_TtlZeroBypassesCache ==
  /\ TtlZeroCall =>
       /\ Ops(io) \cap AllCacheOps = {}
       /\ gw.cacheKeyUrl = NoKey
       /\ gw.cacheStatus \in {"NONE", "BYPASS"}
       /\ result.xcache # "HIT"
       /\ (pc = "done" /\ LimitPassed) => DispatcherReached
  /\ \A e \in cache :
       getCacheTtl(e.key.body.method.s, e.key.body.params).ttl > 0

(* eth_sendRawTransaction answered by a node while the cache holds another
   call's response *)
C14_Witness ==
  /\ req.body = Call(S_eth_sendRawTransaction, <<Str(S_0x)>>)
  /\ pc = "done"
  /\ LimitPassed
  /\ IsOk(result)
  /\ Len(Attempts) > 0
  /\ cache # {}

(* C17: a call answered from the cache ends there: the ChainDO is not
   called, so there is no query of the chains table and no upstream
   attempt. *)
C17_HitShortCircuits ==
  gw.cacheStatus = "HIT" =>
     /\ pc = "done"
     /\ result.xcache = "HIT"
     /\ dobj = NoDobj
     /\ Ops(io) \cap {"db", "upstream"} = {}

(* a hit while the loaded configuration is a whole SYNC_INTERVAL old *)
C17_Witness ==
  /\ gw.cacheStatus = "HIT"
  /\ pc = "done"
  /\ chainData.present
  /\ now - lastSync >= SYNC_INTERVAL

(* C18: every cache entry holds a success-status answer of a node, stored
   with the TTL of a single call under the key of that call; a write happens
   only for the call that was just answered by a node with the sanitised
   body of that very call, and never after a 404, 429, 502 or 503. *)
C18_OnlySuccessIsCached ==
  /\ \A e \in cache :
       /\ IsOk(e.resp)
       /\ e.resp.origin # 0
       /\ e.key.chain = Chain
       /\ e.key.body.kind = "single"
       /\ e.ttl > 0
       /\ e.ttl = getCacheTtl(e.key.body.method.s, e.key.body.params).ttl
  /\ "cache.put" \in Ops(io) =>
       /\ pc = "done"
       /\ IsOk(result)
       /\ req.body.kind = "single"
       /\ gw.ttl > 0
       /\ Attempts # <<>>
       /\ Attempts[Len(Attempts)].ok
       /\ Attempts[Len(Attempts)].node = result.origin
       /\ Attempts[Len(Attempts)].body = SanitizeObject(req.body)
       /\ io[Len(io)].ok =>
            \E e \in cache : /\ e.key = [chain |-> req.chain, body |-> req.body]
                             /\ e.resp = result
                             /\ e.at = now
  /\ result.status \in {404, 429, 502, 503} => "cache.put" \notin Ops(io)

(* the answer of a node to a call with extra members has been stored *)
C18_Witness ==
  /\ pc = "done"
  /\ "cache.put" \in Ops(io)
  /\ io[Len(io)].ok
  /\ req.body.extra
  /\ \E e \in cache : e.key.body = req.body /\ e.resp = result

(* C19: when the cache lookup fails the call is dispatched like a miss, and
   a call for which a node answered with success returns that answer,
   whether or not the telemetry sink and the cache write failed. *)
C19_CacheFailuresSwallowed ==
  /\ "cache.error" \in Ops(io) =>
       /\ pc # "gw_parse"
       /\ result.xcache # "HIT"
       /\ pc = "done" => DispatcherReached
  /\ (pc = "done" /\ SomeSuccess) =>
       /\ IsOk(result)
       /\ result = response
       /\ result.origin = Attempts[Len(Attempts)].node

(* a call whose lookup, telemetry and cache write all failed, answered with
   the success of a node *)
C19_Witness ==
  /\ pc = "done"
  /\ "cache.error" \in Ops(io)
  /\ \E i \in 1..Len(io) : io[i].op = "track" /\ ~io[i].ok
  /\ \E i \in 1..Len(io) : io[i].op = "cache.put" /\ ~io[i].ok
  /\ SomeSuccess
  /\ IsOk(result)

(* The call is a JSON-RPC call that has been answered. *)
RpcAnswered == pc = "done" /\ LimitPassed /\ Routing # "throws"

(* C20 as stated: every response to an RPC call carries X-NullRPC-Cache
   with the cache decision of the call. *)
C20_AsClaimed == RpcAnswered => result.xcache = gw.cacheStatus

(* C20: a response carries X-NullRPC-Cache exactly when it is served from
   the cache, and then with the value HIT; the handler adds no such header
   to a response of the ChainDO. *)
C20_HeaderOnlyOnHit ==
  pc = "done" =>
     /\ result.xcache \in {"HIT", "absent"}
     /\ result.xcache = "HIT" <=> gw.cacheStatus = "HIT"

(* a call served from the cache *)
C20_Witness ==
  /\ pc = "done"
  /\ gw.cacheStatus = "HIT"
  /\ result.xcache = "HIT"
  /\ IsOk(result)

----------------------------------------------------------------------------
(* SpecCache: the worker on a chain with one standard node, asked a
   1-second and a 900-second method, with the clock moving in half seconds
   around the two TTLs. *)

CacheBodies == {Call(S_eth_blockNumber, <<>>), Call(S_eth_chainId, <<>>)}

Epoch == 2 * SYNC_INTERVAL
HalfSecond == 1000 \div 2
LongStep == 900 * 1000 - 2 * HalfSecond

RouteCache == RouteOf(CacheBodies)

(* half seconds pass, at most MaxHalfSeconds in a row, or LongStep once *)
NextCallFine ==
  \/ CallEnds(0)
  \/ /\ (now - Epoch) % LongStep < MaxHalfSeconds * HalfSecond
     /\ CallEnds(HalfSecond)
  \/ /\ now - Epoch < LongStep
     /\ CallEnds(LongStep)

InitCache ==
  /\ now = Epoch
  /\ db = ChainData(1, 0, 0)
  /\ chainData = NoChainData
  /\ lastSync = 0
  /\ cache = {}
  /\ pc = "idle"
  /\ req = [chain |-> Chain, body |-> NoBody, headers |-> NoHeaders,
         path |-> PathOf(Chain), method |-> "POST"]
  /\ gw = NoGw
  /\ dobj = NoDobj
  /\ shuffled = <<>>
  /\ response = NoResponse
  /\ lastHttpError = "none"
  /\ io = <<>>
  /\ result = NoResponse
  /\ limiter = NoLimiter
  /\ calls = NoCalls
  /\ pending = NoPending

NextCache ==
  \/ RouteCache
  \/ CheckRateLimit
  \/ HandleRequestLookup
  \/ EnsureChainData
  \/ DOParse
  \/ StandardEnter
  \/ StandardAttempt
  \/ StandardFailed
  \/ HandleRequestReturn
  \/ NextCallFine
  \/ CacheExpire

SpecCache == InitCache /\ [][NextCache]_vars

(* the entries stored under the key of the current call *)
EntriesOfCall == {e \in cache : e.key = [chain |-> req.chain, body |-> req.body]}

(* The lookup of the call is over and its response not yet written. *)
LookedUp == pc \notin {"idle", "ratelimit", "gw_parse", "done"}

(* C16 as stated: from a put until ttl seconds have elapsed, get returns
   the stored response: an entry that is still fresh after a step is still
   stored under its key, or a later put has replaced it. *)
C16_AsClaimed ==
  [][\A e \in cache :
       FreshAt(e, now') =>
          \E f \in cache' : f.key = e.key /\ f.at >= e.at]_vars

(* C16: a call is answered from the cache only with the response stored
   under its key less than ttl seconds ago, ttl being the TTL of its method;
   a lookup that does not fail misses only when no such entry is held. *)
C16_RoundTripWithinTtl ==
  /\ gw.cacheStatus = "HIT" =>
       \E e \in EntriesOfCall :
          /\ result = [e.resp EXCEPT !.xcache = "HIT"]
          /\ e.ttl = getCacheTtl(req.body.method.s, req.body.params).ttl
          /\ now - e.at < e.ttl * 1000
  /\ (gw.cacheStatus = "MISS" /\ LookedUp) =>
       \A e \in EntriesOfCall : now - e.at >= e.ttl * 1000
  /\ (gw.cacheStatus = "BYPASS" /\ LookedUp) => EntriesOfCall = {}

(* eth_chainId answered from the cache half a second before its entry
   turns 900 seconds old *)
C16_Witness ==
  /\ gw.cacheStatus = "HIT"
  /\ pc = "done"
  /\ req.body = Call(S_eth_chainId, <<>>)
  /\ \E e \in EntriesOfCall : now - e.at = 900 * 1000 - HalfSecond

----------------------------------------------------------------------------
(* Properties of the rate limit check and of ensureChainData (Spec). *)

(* The rate limiter has rejected the call. *)
LimitRejected == io # <<>> /\ io[1].op = "limit" /\ ~io[1].ok

(* C21: a call the rate limiter rejects ends at once with the 429: it
   causes no cache lookup, no query of the chains table and no upstream
   attempt; and the rate limit check is the first I/O of every call. *)
C21_RejectedCallDoesNothing ==
  /\ io # <<>> => io[1].op = "limit"
  /\ LimitRejected =>
       /\ pc = "done"
       /\ result = RateLimitExceeded
       /\ Len(io) = 1
       /\ gw = NoGw
       /\ dobj = NoDobj

(* a rejected call for an answer the cache holds, on a chain whose loaded
   data is stale *)
C21_Witness ==
  /\ LimitRejected
  /\ pc = "done"
  /\ result.status = 429
  /\ \E e \in cache : e.key.body = req.body /\ Fresh(e)
  /\ chainData.present
  /\ now - lastSync >= SYNC_INTERVAL

(* The ensureChainData step of this call has queried the table and the
   query has thrown. *)
QueryFailed == \E i \in 1..Len(io) : io[i].op = "db" /\ ~io[i].ok

(* C23: a query of the chains table that throws leaves chainData and
   lastSync as they were; with data loaded the call goes on to be
   classified, with none loaded it ends in the 404. *)
C23_FailedRefreshKeepsConfig ==
  [][(pc = "do_ensure" /\ QueryFailed') =>
       /\ chainData' = chainData
       /\ lastSync' = lastSync
       /\ chainData.present => pc' = "do_parse" /\ result' = result
       /\ ~chainData.present => pc' = "do_return" /\ result' = NotConfigured]_vars

(* a call answered by a node of the data kept after a failed refresh *)
C23_Witness ==
  /\ QueryFailed
  /\ pc = "done"
  /\ chainData.present
  /\ now - lastSync >= SYNC_INTERVAL
  /\ IsOk(result)
  /\ result.origin \in Range(chainData.nodes)

(* C24: while the chains table has no row for the chain and none was ever
   loaded, a call that passes the rate limiter ends in the 404 and makes no
   upstream attempt. *)
C24_UnknownChainIs404 ==
  (~db.present /\ ~chainData.present) =>
     /\ Attempts = <<>>
     /\ Routing = "none"
     /\ (pc = "done" /\ LimitPassed) => result = NotConfigured /\ result.status = 404

(* a well-formed call on a chain without a row, ended with the 404 *)
C24_Witness ==
  /\ ~db.present
  /\ pc = "done"
  /\ LimitPassed
  /\ req.body = Call(S_eth_chainId, <<>>)
  /\ result.status = 404
  /\ "db" \in Ops(io)

(* C30 as stated: with data loaded and now - lastSync <= SYNC_INTERVAL,
   exactly 60 s included, ensureChainData does not query the table. *)
C30_AsClaimed ==
  [][(pc = "do_ensure" /\ chainData.present /\ now - lastSync <= SYNC_INTERVAL) =>
       io' = io]_vars

(* C30: ensureChainData queries the chains table exactly when no data is
   loaded or now - lastSync >= SYNC_INTERVAL; while data is loaded and
   now - lastSync < SYNC_INTERVAL it issues no query and leaves the data
   and lastSync as they are. *)
C30_RefreshWhenStale ==
  [][pc = "do_ensure" =>
       /\ (~chainData.present \/ now - lastSync >= SYNC_INTERVAL) =>
            /\ Len(io') = Len(io) + 1
            /\ io'[Len(io')].op = "db"
       /\ (chainData.present /\ now - lastSync < SYNC_INTERVAL) =>
            /\ io' = io
            /\ chainData' = chainData
            /\ lastSync' = lastSync
            /\ pc' = "do_parse"]_vars

(* data exactly SYNC_INTERVAL old has been loaded again *)
C30_Witness ==
  /\ pc = "do_parse"
  /\ "db" \in Ops(io)
  /\ ~QueryFailed
  /\ lastSync = now
  /\ now = 3 * SYNC_INTERVAL

----------------------------------------------------------------------------
(* SpecProxy: ChainDO.fetch as in SpecDispatch, for requests that reach it
   with the headers the router has left of what the client sent. *)

InitProxy ==
  /\ now = 2 * SYNC_INTERVAL
  /\ \E k \in {0, GwMaxPool}, a \in {0, GwMaxPool}, m \in {0, GwMaxPool} :
       /\ chainData = ChainData(k, a, m)
       /\ db = chainData
  /\ lastSync = now
  /\ cache = {}
  /\ pc = "do_parse"
  /\ \E b \in DispatchBodies, h \in InboundHeaders :
       req = [chain |-> Chain, body |-> b, headers |-> stripPrivacyHeaders(h),
         path |-> PathOf(Chain), method |-> "POST"]
  /\ gw = NoGw
  /\ dobj = NoDobj
  /\ shuffled = <<>>
  /\ response = NoResponse
  /\ lastHttpError = "none"
  /\ io = <<>>
  /\ result = NoResponse
  /\ limiter = NoLimiter
  /\ calls = NoCalls
  /\ pending = NoPending

NextProxy == NextDispatch

SpecProxy == InitProxy /\ [][NextProxy]_vars

(* C29 as stated: an upstream request carries content-type and accept and
   no other header. *)
C29_AsClaimed ==
  \A i \in 1..Len(io) :
    io[i].op = "upstream" => HeaderNames(io[i].headers) = {"content-type", "accept"}

(* C29: every upstream request carries the same three headers,
   content-type: application/json, accept: application/json and
   user-agent: NullRPC/1.0, whatever headers the inbound request had. *)
C29_FixedUpstreamHeaders ==
  \A i \in 1..Len(io) :
    io[i].op = "upstream" =>
      io[i].headers = {Header("content-type", "application/json"),
                       Header("accept", "application/json"),
                       Header("user-agent", "NullRPC/1.0")}

(* an upstream request made for a call that came with content-type
   text/plain *)
C29_Witness ==
  /\ Attempts # <<>>
  /\ Header("content-type", "text/plain") \in req.headers
  /\ Header("accept", "*/*") \in req.headers

----------------------------------------------------------------------------
(* SpecRoute: the router over the shapes of a path, up to the rate limit
   check of the calls it takes for public RPC calls. *)

TokenPath == PathOf(Chain) \o <<Slash, "k", "1">>

RoutePaths ==
  {PathOf(Chain),
   PathOf(Chain) \o <<Slash>>,
   TokenPath,
   TokenPath \o <<Slash>>,
   <<Slash>> \o PathOf(Chain),
   <<Slash>>,
   PathChains,
   PathAnalytics,
   <<Slash, "a", ".", "b">>}

RouteBodies == {Call(S_eth_chainId, <<>>), Malformed(1)}

RouteAny == RouterFetch(RoutePaths, {"GET", "POST"}, InboundHeaders, RouteBodies)

NextRoute ==
  \/ RouteAny
  \/ CheckRateLimit

SpecRoute == Init /\ [][NextRoute]_vars

(* C22: a POST to /{chain}/{token} with a non-empty token is taken for an
   RPC call: it is not answered 'Not Found', and it ends only after a
   rate limit check. *)
C22_TokenPathIsRpc ==
  (pc # "idle" /\ req.method = "POST" /\ req.path = TokenPath) =>
     /\ result # NotFound
     /\ pc = "done" => Ops(io) = {"limit"}

----------------------------------------------------------------------------
(* SpecLimiter: the checks of one identity, one after another, with time
   passing between them in steps of half a hobbyist token. *)

(* the time a hobbyist bucket takes to refill half a token, milliseconds *)
HalfTokenTime == (TokenUnit \div 2) \div PLANS("hobbyist").requestsPerSecond

LimiterPlans == {"hobbyist", "enterprise", "none"}

(* the states an identity is started in: the bucket full or down to one
   token, the quota untouched or one call short of the limit *)
StartStates(plan) ==
  IF plan = "hobbyist"
  THEN {RateLimitState(plan, t, u, 0) :
          t \in {Capacity(plan), TokenUnit},
          u \in {0, PLANS(plan).requestsPerMonth - 1}}
  ELSE IF plan = "none" THEN {NoLimiter}
  ELSE {RateLimitState(plan, Infinity, 0, 0)}

InitLimiterWith(starts) ==
  /\ now = 0
  /\ db = NoRow
  /\ chainData = NoChainData
  /\ lastSync = 0
  /\ cache = {}
  /\ pc = "idle"
  /\ req = [chain |-> Chain, body |-> NoBody, headers |-> NoHeaders,
            path |-> PathOf(Chain), method |-> "POST"]
  /\ gw = NoGw
  /\ dobj = NoDobj
  /\ shuffled = <<>>
  /\ response = NoResponse
  /\ lastHttpError = "none"
  /\ io = <<>>
  /\ result = NoResponse
  /\ limiter \in starts
  /\ calls = [NoCalls EXCEPT !.initial = limiter]
  /\ pending = NoPending

InitLimiter == InitLimiterWith(UNION {StartStates(p) : p \in LimiterPlans})

(* one check call, evaluated as a whole *)
Check ==
  /\ Checks < MaxChecks
  /\ limiter' = check(limiter, now).state
  /\ calls' = Answered(calls, check(limiter, now).result, now)
  /\ UNCHANGED <<pending, now, db, chainData, lastSync, cache, pc, req, gw, dobj, shuffled,
                 response, lastHttpError, io, result>>

(* time passes *)
LimiterTick(steps) ==
  /\ now + HalfTokenTime <= steps * HalfTokenTime
  /\ now' = now + HalfTokenTime
  /\ UNCHANGED <<pending, limiter, calls, db, chainData, lastSync, cache, pc, req, gw, dobj,
                 shuffled, response, lastHttpError, io, result>>

SpreadTick == LimiterTick(MaxSpreadSteps)

(* the billing window rolls over: monthlyUsed starts again from 0 *)
WindowRollover ==
  /\ calls.rollovers < MaxRollovers
  /\ limiter.plan # "none"
  /\ now > limiter.windowStart
  /\ limiter' = [limiter EXCEPT !.monthlyUsed = 0, !.windowStart = now]
  /\ calls' = [calls EXCEPT !.rollovers = @ + 1]
  /\ UNCHANGED <<pending, now, db, chainData, lastSync, cache, pc, req, gw, dobj, shuffled,
                 response, lastHttpError, io, result>>

NextLimiter ==
  \/ Check
  \/ SpreadTick
  \/ WindowRollover

SpecLimiter == InitLimiter /\ [][NextLimiter]_vars

(* a step that answers a check *)
CheckStep == ChecksOf(calls') = Checks + 1

(* C25: the bucket of a plan with finite limits always holds between 0
   tokens and its capacity, which is 1.5 times the plan's requests per
   second (15 tokens for hobbyist); and while the billing window is the
   same, monthlyUsed does not decrease. *)
C25_BucketWithinCapacity ==
  /\ [](/\ Capacity("hobbyist") = 15 * TokenUnit
        /\ ~Unlimited(limiter) =>
             /\ 0 <= limiter.tokens
             /\ limiter.tokens <= Capacity(limiter.plan)
             /\ 2 * Capacity(limiter.plan)
                  = 3 * TokenUnit * PLANS(limiter.plan).requestsPerSecond)
  /\ [][limiter'.windowStart = limiter.windowStart =>
          limiter'.monthlyUsed >= limiter.monthlyUsed]_vars

(* a hobbyist bucket refilled up to its capacity after calls were allowed *)
C25_Witness ==
  /\ limiter.plan = "hobbyist"
  /\ calls.initial.tokens = TokenUnit
  /\ calls.counts["allowed"] >= 2
  /\ limiter.monthlyUsed = calls.counts["allowed"]
  /\ limiter.lastRefill > 0

(* C27: a check rejected with monthly_limit or rate_limit leaves
   monthlyUsed as it was and the bucket as the refill of the elapsed time
   leaves it; and with the quota used up and less than one token in the
   bucket the reason is monthly_limit. *)
C27_RejectionChangesNothing ==
  [][(CheckStep /\ ~calls'.last.allowed
        /\ calls'.last.reason \in {"monthly_limit", "rate_limit"}) =>
       /\ limiter'.monthlyUsed = limiter.monthlyUsed
       /\ limiter'.tokens = Refill(limiter, now).tokens
       /\ (/\ limiter.monthlyUsed >= PLANS(limiter.plan).requestsPerMonth
           /\ Refill(limiter, now).tokens < TokenUnit) =>
             calls'.last.reason = "monthly_limit"]_vars

(* a check rejected with monthly_limit while the bucket is empty too *)
C27_Witness ==
  /\ calls.last.reason = "monthly_limit"
  /\ limiter.tokens < TokenUnit
  /\ limiter.monthlyUsed = PLANS("hobbyist").requestsPerMonth
  /\ calls.counts["allowed"] = 1
  /\ calls.rollovers = 0

(* The scenario: a hobbyist identity with a full bucket and the quota
   untouched has had 25 checks answered, all within one second. *)
TwentyFiveWithinASecond ==
  /\ calls.initial = RateLimitState("hobbyist", Capacity("hobbyist"), 0, 0)
  /\ calls.rollovers = 0
  /\ Checks = 25
  /\ limiter.lastRefill - calls.first < 1000

(* C28 as stated: exactly 15 of the 25 are allowed and 10 are rejected
   with rate_limit, whatever their timing. *)
C28_AsClaimed ==
  TwentyFiveWithinASecond =>
    calls.counts["allowed"] = 15 /\ calls.counts["rate_limit"] = 10

(* C28: at least 15 of the 25 are allowed, at most one more for every full
   tenth of a second between the first and the last of them, and all the
   others are rejected with rate_limit; exactly 15 are allowed when the 25
   arrive within less than a tenth of a second. *)
C28_BurstThenRefill ==
  TwentyFiveWithinASecond =>
    LET spread == limiter.lastRefill - calls.first
        perToken == TokenUnit \div PLANS("hobbyist").requestsPerSecond
    IN  /\ calls.counts["allowed"] >= 15
        /\ calls.counts["allowed"] <= 15 + spread \div perToken
        /\ calls.counts["rate_limit"] = 25 - calls.counts["allowed"]
        /\ spread < perToken => calls.counts["allowed"] = 15

(* 25 checks at the same instant: 15 allowed, 10 rejected *)
C28_Witness ==
  /\ TwentyFiveWithinASecond
  /\ limiter.lastRefill = calls.first
  /\ calls.counts["allowed"] = 15
  /\ calls.counts["rate_limit"] = 10
  /\ calls.last.reason = "rate_limit"

----------------------------------------------------------------------------
(* SpecShard: requests of one identity that are in flight together at the
   single-writer unit that owns its state; the unit answers them one at a
   time, in any order. *)

ShardStarts ==
  {RateLimitState("hobbyist", t, u, 0) :
     t \in {TokenUnit, 2 * TokenUnit + TokenUnit \div 2},
     u \in {0, PLANS("hobbyist").requestsPerMonth - 1}}

InitShard == InitLimiterWith(ShardStarts)

(* a unit that answers a request from the state it had when the request
   arrived *)
Observed_AtArrival(seen) == seen

(* the state a check is evaluated on is the state of the unit at that
   moment: checks of one identity are serialized *)
Observed(seen) == limiter

(* a request arrives while others are waiting *)
Arrive ==
  /\ Len(calls.inflight) < MaxInFlight
  /\ calls.arrivals < MaxArrivals
  /\ calls' = [calls EXCEPT !.inflight = Append(@, limiter), !.arrivals = @ + 1]
  /\ UNCHANGED <<pending, limiter, now, db, chainData, lastSync, cache, pc, req, gw, dobj,
                 shuffled, response, lastHttpError, io, result>>

(* the unit answers one of the waiting requests *)
Process ==
  \E i \in 1..Len(calls.inflight) :
    LET out == check(Observed(calls.inflight[i]), now)
        rest == SubSeq(calls.inflight, 1, i - 1)
                  \o SubSeq(calls.inflight, i + 1, Len(calls.inflight))
    IN  /\ limiter' = out.state
        /\ calls' = Answered([calls EXCEPT !.inflight = rest], out.result, now)
        /\ UNCHANGED <<pending, now, db, chainData, lastSync, cache, pc, req, gw, dobj,
                       shuffled, response, lastHttpError, io, result>>

ShardTick == LimiterTick(MaxShardSteps)

NextShard ==
  \/ Arrive
  \/ Process
  \/ ShardTick

SpecShard == InitShard /\ [][NextShard]_vars

(* C26: however the checks of concurrent requests of one identity are
   ordered, an allowed check takes exactly one token from the refilled
   bucket and adds one to monthlyUsed; the tokens granted plus those left
   never exceed the tokens the bucket had plus its refill, and monthlyUsed
   counts the allowed calls. *)
C26_NoDoubleSpend ==
  /\ [](/\ calls.counts["allowed"] * TokenUnit + limiter.tokens
             <= calls.initial.tokens + now * PLANS(limiter.plan).requestsPerSecond
        /\ limiter.monthlyUsed = calls.initial.monthlyUsed + calls.counts["allowed"]
        /\ limiter.monthlyUsed <= PLANS(limiter.plan).requestsPerMonth
        /\ limiter.tokens >= 0)
  /\ [][(CheckStep /\ calls'.last.allowed) =>
          /\ limiter'.tokens = Refill(limiter, now).tokens - TokenUnit
          /\ limiter'.monthlyUsed = limiter.monthlyUsed + 1]_vars

(* two requests arrived while the bucket held its last token: one was
   allowed, the other rejected with rate_limit *)
C26_Witness ==
  /\ calls.initial.tokens = TokenUnit
  /\ calls.initial.monthlyUsed = 0
  /\ now = 0
  /\ calls.arrivals = 2
  /\ calls.inflight = <<>>
  /\ calls.counts["allowed"] = 1
  /\ calls.counts["rate_limit"] = 1

----------------------------------------------------------------------------
(* Further properties of the dispatch (SpecDispatch). *)

(* the attempts a handler makes on a pool when none succeeds *)
FullBudget(pool, budget) ==
  Len(AttemptsOn(pool)) = Min(budget, Len(chainData[pool]))

(* C34: a dispatch without a successful attempt has tried, on each pool of
   its category in turn, as many distinct candidates as the budget and the
   pool allow, whether the failures were error statuses or connection
   errors; and the response it returns is never the 502 that proxyRequest
   builds for a connection error, nor any other response of a failed
   attempt. *)
C34_FailuresAreRetried ==
  /\ \A i, j \in 1..Len(Attempts) : i # j => Attempts[i].node # Attempts[j].node
  /\ (DispatchEnded /\ ~SomeSuccess) =>
       /\ FullBudget("nodes", STANDARD_BUDGET)
       /\ Routing = "mev" => FullBudget("mev_nodes", MEV_BUDGET)
       /\ Routing = "archive" => FullBudget("archive_nodes", ARCHIVE_BUDGET)
  /\ DispatchEnded =>
       /\ result # ConnectionFailed
       /\ ~IsOk(result) => result.origin = 0 /\ result.details = "none"

(* a mev call whose five attempts all ended in a connection error *)
C34_Witness ==
  /\ DispatchEnded
  /\ Routing = "mev"
  /\ Len(AttemptsOn("mev_nodes")) = MEV_BUDGET
  /\ Len(AttemptsOn("nodes")) = MEV_FALLBACK_BUDGET
  /\ response = ConnectionFailed
  /\ lastHttpError = "none"
  /\ result = AllFailedForTransaction

(* C38: a standard call is sent to nodes of chainData.nodes only, an
   archive call to nodes of archive_nodes and nodes only, a mev call to
   nodes of mev_nodes and nodes only (the three lists hold different
   URLs). *)
C38_PoolIsolation ==
  \A i \in 1..Len(Attempts) :
    LET n == Attempts[i].node IN
    /\ Routing = "standard" => n \in Range(chainData.nodes)
    /\ Routing = "archive" =>
         /\ n \notin Range(chainData.mev_nodes)
         /\ n \in Range(chainData.archive_nodes) \cup Range(chainData.nodes)
    /\ Routing = "mev" =>
         /\ n \notin Range(chainData.archive_nodes)
         /\ n \in Range(chainData.mev_nodes) \cup Range(chainData.nodes)

(* an archive call that went through both of its pools while mev nodes
   were configured *)
C38_Witness ==
  /\ DispatchEnded
  /\ Routing = "archive"
  /\ chainData.mev_nodes # <<>>
  /\ AttemptsOn("archive_nodes") # <<>>
  /\ AttemptsOn("nodes") # <<>>
  /\ ~SomeSuccess

(* C39 as stated: a 503 comes after no attempt at all, and failed attempts
   always end in the 502. *)
C39_AsClaimed ==
  DispatchEnded =>
     /\ result.status = 503 => Attempts = <<>>
     /\ (Attempts # <<>> /\ ~SomeSuccess) => result.status = 502

(* C39: a dispatch that ends in the 503 has made no attempt on
   chainData.nodes, which is empty; a dispatch that made no attempt at all
   ends in the 503; and one whose attempts on chainData.nodes all failed
   ends in the 502. *)
C39_NoNodesMeansNoStandardAttempt ==
  DispatchEnded =>
     /\ result.status = 503 => (AttemptsOn("nodes") = <<>> /\ chainData.nodes = <<>>)
     /\ Attempts = <<>> => result.status = 503
     /\ (AttemptsOn("nodes") # <<>> /\ ~SomeSuccess) => result.status = 502

(* archive nodes were tried and failed, chainData.nodes is empty: 503 *)
C39_Witness ==
  /\ DispatchEnded
  /\ Routing = "archive"
  /\ Len(AttemptsOn("archive_nodes")) = ARCHIVE_BUDGET
  /\ chainData.nodes = <<>>
  /\ result = NoNodesForChain

----------------------------------------------------------------------------
(* Raw transactions and the mev pool (Spec). *)

(* a single eth_sendRawTransaction request *)
IsRawTx(body) ==
  body.kind = "single" /\ body.method = Str(S_eth_sendRawTransaction)

(* the body is such a request, or a batch holding one *)
CarriesRawTx(body) ==
  \/ IsRawTx(body)
  \/ /\ body.kind = "batch"
     /\ \E i \in 1..Len(body.items) : IsRawTx(body.items[i])

(* no attempt on chainData.nodes unless attempts on mev_nodes came first
   and every one of them failed *)
MevFirst ==
  AttemptsOn("nodes") # <<>> =>
     /\ AttemptsOn("mev_nodes") # <<>>
     /\ Precedes("mev_nodes", "nodes")
     /\ \A i \in 1..Len(Attempts) :
          Attempts[i].pool = "mev_nodes" => ~Attempts[i].ok

(* C40 as stated: a raw transaction, single or inside a batch, reaches a
   standard node only after the mev nodes have failed, when mev nodes are
   configured. *)
C40_AsClaimed ==
  (CarriesRawTx(req.body) /\ chainData.mev_nodes # <<>>) => MevFirst

(* C40: a raw transaction that arrives as a single request reaches a
   standard node only after attempts on mev_nodes that all failed, when
   mev nodes are configured; a batch is dispatched as a standard call
   whatever its elements are. *)
C40_SingleRawTxMevFirst ==
  /\ (IsRawTx(req.body) /\ chainData.mev_nodes # <<>>) => MevFirst
  /\ (req.body.kind = "batch" /\ Routing # "none") => Routing = "standard"

(* a single raw transaction that fell back to chainData.nodes after the
   mev node failed *)
C40_Witness ==
  /\ IsRawTx(req.body)
  /\ chainData.mev_nodes # <<>>
  /\ AttemptsOn("mev_nodes") # <<>>
  /\ AttemptsOn("nodes") # <<>>

----------------------------------------------------------------------------
(* Bodies that are JSON but no JSON-RPC call (SpecClassify). *)

(* C35: every body that parses as JSON, also one whose method is missing or
   no string or whose params are missing or no list, is handed to one of
   the three handlers to be forwarded: ChainDO.fetch raises no exception. *)
C35_NoUnhandledError ==
  pc # "do_parse" =>
     /\ Routing \in {"mev", "archive", "standard"}
     /\ result # DOThrew

----------------------------------------------------------------------------
(* SpecRefresh: ensureChainData under concurrent calls. The calls of a slug
   share one ChainDO. A call that finds chainData missing or stale awaits
   the query of line 237; while it waits the ChainDO serves other calls,
   which find the same stale chainData and start queries of their own. The
   queries read the row at different moments and complete in any order. *)

(* the text of a column that JSON.parse rejects *)
Unparsable == <<0>>

Columns == {"archive_nodes", "mev_nodes", "nodes"}

Corrupt(row, column) == [row EXCEPT ![column] = Unparsable]

(* JSON.parse of the three columns, lines 241-245 *)
RowParses(row) == \A c \in Columns : row[c] # Unparsable

(* an update that assigns the lists one by one, in the order of lines
   241-245, and stops at the list that does not parse *)
Refreshed_ListByList(old, row) ==
  IF ~row.present THEN NoChainData
  ELSE LET a == row.archive_nodes # Unparsable
           m == a /\ row.mev_nodes # Unparsable
           n == m /\ row.nodes # Unparsable
       IN  [present |-> TRUE,
            archive_nodes |-> IF a THEN row.archive_nodes ELSE old.archive_nodes,
            mev_nodes |-> IF m THEN row.mev_nodes ELSE old.mev_nodes,
            nodes |-> IF n THEN row.nodes ELSE old.nodes]

(* lines 239-258: this.chainData after the query returned `row`. The object
   literal is evaluated in full before it is assigned; a JSON.parse that
   throws leaves the assignment undone and the catch keeps the old value. *)
Refreshed(old, row) ==
  IF ~row.present THEN NoChainData
  ELSE IF RowParses(row) THEN row
  ELSE AfterQueryError(old)

(* line 248: this.lastSync = now, the `now` of line 230, taken before the
   query was awaited *)
Synced(old, q) ==
  IF q.row.present /\ RowParses(q.row) THEN q.at ELSE old

(* how the refresh ended *)
RefreshOutcome(row) ==
  IF ~row.present THEN "absent"
  ELSE IF RowParses(row) THEN "replaced"
  ELSE "failed"

RowA == ChainData(1, 1, 1)
RowB == ChainData(2, 0, 1)

RefreshRows == {NoRow, RowA, RowB, Corrupt(RowB, "nodes")}

CompleteRows == {r \in RefreshRows : r.present /\ RowParses(r)}

Query(at) == [at |-> at, read |-> FALSE, row |-> NoRow]

InitRefresh ==
  /\ now = 2 * SYNC_INTERVAL
  /\ db \in RefreshRows
  /\ \/ chainData = NoChainData /\ lastSync = 0
     \/ chainData = RowA /\ lastSync = now - SYNC_INTERVAL
  /\ cache = {}
  /\ pc = "idle"
  /\ req = [chain |-> Chain, body |-> NoBody, headers |-> NoHeaders,
         path |-> PathOf(Chain), method |-> "POST"]
  /\ gw = NoGw
  /\ dobj = NoDobj
  /\ shuffled = <<>>
  /\ response = NoResponse
  /\ lastHttpError = "none"
  /\ io = <<>>
  /\ result = NoResponse
  /\ limiter = NoLimiter
  /\ calls = NoCalls
  /\ pending = NoPending

(* lines 230-237: a call finds chainData missing or stale, notes the time
   and sends the query *)
QueryStart ==
  /\ ~ConfigIsFresh
  /\ Cardinality(pending.queries) < MaxQueries
  /\ pending' = [pending EXCEPT !.queries = @ \cup {Query(now)}]
  /\ UNCHANGED <<now, db, chainData, lastSync, cache, pc, req, gw, dobj, shuffled,
                 response, lastHttpError, io, result, limiter, calls>>

(* D1 executes the query: it reads the row as it is now *)
QueryRead ==
  \E q \in pending.queries :
    /\ ~q.read
    /\ pending' = [pending EXCEPT
                     !.queries = (@ \ {q}) \cup {[q EXCEPT !.read = TRUE, !.row = db]},
                     !.lastRead = IF db.present /\ ~RowParses(db) THEN @ ELSE db]
    /\ UNCHANGED <<now, db, chainData, lastSync, cache, pc, req, gw, dobj, shuffled,
                   response, lastHttpError, io, result, limiter, calls>>

(* the query rejects: lines 253-258 *)
QueryFail ==
  \E q \in pending.queries :
    /\ ~q.read
    /\ pending' = [pending EXCEPT !.queries = @ \ {q}, !.lastRefresh = "failed"]
    /\ chainData' = AfterQueryError(chainData)
    /\ UNCHANGED <<now, db, lastSync, cache, pc, req, gw, dobj, shuffled,
                   response, lastHttpError, io, result, limiter, calls>>

(* the await of line 237 returns: lines 239-252 *)
QueryComplete ==
  \E q \in pending.queries :
    /\ q.read
    /\ pending' = [pending EXCEPT !.queries = @ \ {q},
                                  !.lastRefresh = RefreshOutcome(q.row)]
    /\ chainData' = Refreshed(chainData, q.row)
    /\ lastSync' = Synced(lastSync, q)
    /\ UNCHANGED <<now, db, cache, pc, req, gw, dobj, shuffled,
                   response, lastHttpError, io, result, limiter, calls>>

(* the row of the slug is inserted, updated or deleted *)
StoreChange ==
  /\ \E row \in RefreshRows \ {db} : db' = row
  /\ UNCHANGED <<pending, now, chainData, lastSync, cache, pc, req, gw, dobj, shuffled,
                 response, lastHttpError, io, result, limiter, calls>>

RefreshTick ==
  /\ now < 2 * SYNC_INTERVAL + MaxRefreshTicks * (SYNC_INTERVAL \div 2)
  /\ now' = now + SYNC_INTERVAL \div 2
  /\ UNCHANGED <<pending, db, chainData, lastSync, cache, pc, req, gw, dobj, shuffled,
                 response, lastHttpError, io, result, limiter, calls>>

NextRefresh ==
  \/ QueryStart
  \/ QueryRead
  \/ QueryFail
  \/ QueryComplete
  \/ StoreChange
  \/ RefreshTick

SpecRefresh == InitRefresh /\ [][NextRefresh]_vars

(* a query whose row had a list that does not parse has just completed *)
ParseFailed ==
  \E q \in pending.queries \ pending'.queries :
    q.read /\ q.row.present /\ ~RowParses(q.row)

(* C31: chainData is null or, in its three lists at once, one complete row
   of the chains table: a refresh replaces nodes, archive_nodes and
   mev_nodes together, and a refresh whose row has a list that does not
   parse changes none of them. *)
C31_ListsReplacedTogether ==
  /\ [](chainData \in {NoChainData} \cup CompleteRows)
  /\ [][ParseFailed => chainData' = chainData]_vars

(* a refresh has failed on the row with the corrupt list while chainData
   held another row, which it still holds *)
C31_Witness ==
  /\ pending.lastRefresh = "failed"
  /\ pending.queries = {}
  /\ db = Corrupt(RowB, "nodes")
  /\ chainData = RowA

(* C37: once no refresh is in flight chainData is the row that the latest
   read of the chains table returned, and lastSync never decreases. *)
C37_LatestReadWins ==
  /\ []((pending.queries = {} /\ pending.lastRefresh \in {"replaced", "absent"})
          => chainData = pending.lastRead)
  /\ [][lastSync' >= lastSync]_vars

----------------------------------------------------------------------------
(* SpecAsync: one dispatch with its awaits. Each iteration of a handler's
   loop awaits proxyRequest, which awaits fetch (line 269). While the
   dispatch waits, the client may go away and the ChainDO serves other
   calls of the slug, whose ensureChainData assigns this.chainData. *)

(* a loop that sends to the next candidate without awaiting the answer of
   the one before *)
Awaited_FanOut(fetches) == TRUE

(* const response = await this.proxyRequest(nodeUrl, request.clone()): the
   loop goes on when the promise has settled *)
Awaited(fetches) == fetches = {}

(* the for-of loops and the list each iterates over *)
Loops ==
  {<<"mev_loop", "mev_nodes">>, <<"mev_fallback_loop", "nodes">>,
   <<"archive_loop", "archive_nodes">>, <<"standard_loop", "nodes">>}

(* the candidates of the running loop that have not been sent to *)
NotSent == SelectSeq(shuffled, LAMBDA n : n \notin pending.fetches)

(* proxyRequest up to the fetch of line 269: the request leaves for the
   node. Neither the loop nor proxyRequest reads request.signal, and the
   fetch is given no signal. *)
AttemptStart ==
  /\ \E l \in Loops : pc = l[1]
  /\ NotSent # <<>>
  /\ Awaited(pending.fetches)
  /\ pending' = [pending EXCEPT !.fetches = @ \cup {Head(NotSent)}]
  /\ UNCHANGED <<now, db, chainData, lastSync, cache, pc, req, gw, dobj, shuffled,
                 response, lastHttpError, io, result, limiter, calls>>

(* the fetch settles: lines 275-288, then `if (response.ok) return
   response` of the loop *)
AttemptComplete ==
  \E l \in Loops, n \in pending.fetches :
    /\ pc = l[1]
    /\ \E r \in ProxyRequest(n) :
         /\ response' = r
         /\ io' = Append(io, UpstreamEv(n, l[2], IsOk(r), dobj.requestToUse,
                                        cleanHeaders(req.headers)))
         /\ lastHttpError' = IF ~IsOk(r) /\ r.origin # 0 THEN r.body ELSE lastHttpError
         /\ pending' = [pending EXCEPT !.fetches = @ \ {n}]
         /\ IF StopsOn(r)
            THEN result' = r /\ pc' = "do_return" /\ shuffled' = <<>>
            ELSE /\ result' = result
                 /\ pc' = pc
                 /\ shuffled' = SelectSeq(shuffled, LAMBDA x : x # n)
    /\ UNCHANGED <<now, db, chainData, lastSync, cache, req, gw, dobj, limiter, calls>>

(* the client closes the connection before the response *)
Disconnect ==
  /\ pending.client = "connected"
  /\ pc \notin {"do_return", "done"}
  /\ pending' = [pending EXCEPT !.client = "gone"]
  /\ UNCHANGED <<now, db, chainData, lastSync, cache, pc, req, gw, dobj, shuffled,
                 response, lastHttpError, io, result, limiter, calls>>

(* The ChainDO runs one piece of code at a time: code of another call runs
   while this dispatch is suspended at the await of a fetch, or after it
   has returned. *)
Suspended == pending.fetches # {} \/ pc \in {"do_return", "done"}

(* another call of the slug enters ensureChainData *)
OtherQueryStart ==
  /\ Suspended
  /\ Cardinality(pending.queries) < MaxOtherQueries
  /\ QueryStart

(* the ensureChainData of another call goes on after its await *)
OtherQueryFail == Suspended /\ QueryFail
OtherQueryComplete == Suspended /\ QueryComplete

AsyncConfigs ==
  {ChainData(k, a, m) : k \in 0..AsyncMaxStd, a \in 0..AsyncMaxPool, m \in 0..AsyncMaxPool}

(* The dispatch begins with a configuration that its own refresh could not
   renew (the query failed and the old value was kept), so that the next
   call refreshes again; the row has been deleted or rewritten since. *)
InitAsync ==
  /\ now = 2 * SYNC_INTERVAL
  /\ chainData \in AsyncConfigs
  /\ db \in {NoRow, RowB}
  /\ lastSync = now - SYNC_INTERVAL
  /\ cache = {}
  /\ pc = "do_parse"
  /\ \E b \in DispatchBodies : req = [chain |-> Chain, body |-> b, headers |-> NoHeaders,
         path |-> PathOf(Chain), method |-> "POST"]
  /\ gw = NoGw
  /\ dobj = NoDobj
  /\ shuffled = <<>>
  /\ response = NoResponse
  /\ lastHttpError = "none"
  /\ io = <<>>
  /\ result = NoResponse
  /\ limiter = NoLimiter
  /\ calls = NoCalls
  /\ pending = [NoPending EXCEPT !.began = chainData]

NextAsync ==
  \/ DOParse
  \/ MevEnter
  \/ MevSkip
  \/ MevExhausted
  \/ MevFallbackNoNodes
  \/ MevFallbackEnter
  \/ MevFallbackFailed
  \/ ArchiveSkip
  \/ ArchiveEnter
  \/ ArchiveExhausted
  \/ StandardNoNodes
  \/ StandardEnter
  \/ StandardFailed
  \/ AttemptStart
  \/ AttemptComplete
  \/ Disconnect
  \/ OtherQueryStart
  \/ QueryRead
  \/ OtherQueryFail
  \/ OtherQueryComplete

SpecAsync == InitAsync /\ [][NextAsync]_vars

(* a fetch has just been sent *)
Sent == ~(pending'.fetches \subseteq pending.fetches)

(* C32: a dispatch has at most one upstream fetch in flight, and it sends
   one only when none is in flight and the attempt before it, if any, has
   ended in a failure. *)
C32_AttemptsAreSequential ==
  /\ [](Cardinality(pending.fetches) <= 1)
  /\ [][Sent => /\ pending.fetches = {}
                /\ Attempts # <<>> => ~Attempts[Len(Attempts)].ok]_vars

(* the second candidate is in flight after the first one failed *)
C32_Witness ==
  /\ Cardinality(pending.fetches) = 1
  /\ Len(Attempts) = 1
  /\ ~SomeSuccess
  /\ pc = "standard_loop"

(* C33: once the client is gone the dispatch sends no further fetch, and
   the fetch in flight is cancelled: no answer of it is taken. *)
C33_DisconnectStopsDispatch ==
  [][pending.client = "gone" =>
       /\ pending'.fetches \subseteq pending.fetches
       /\ Attempts' = Attempts]_vars

(* C36: every attempt of a dispatch goes to a node of the configuration
   the dispatch began with, from the list of its pool, and the dispatch
   answers 503 only when that configuration has no standard node. *)
C36_OneSnapshot ==
  /\ \A i \in 1..Len(Attempts) :
       Attempts[i].node \in Range(pending.began[Attempts[i].pool])
  /\ (DispatchEnded /\ result.status = 503) => pending.began.nodes = <<>>

====
